---------------------------- MODULE Spec2Model ----------------------------
(***************************************************************************)
(* Laser scanner synchronisation and line streaming engine of hexastorm    *)
(* (src/src/FPGAG/lasers.py): the Laserhead state machine, the exposure    *)
(* start detector, the transactional line transport it reads from, and the *)
(* DiodeSimulator test wrapper that produces the photodiode signal.        *)
(* One step of the model is one clock tick: every register takes its next  *)
(* value from the registers and inputs of the tick before.                 *)
(***************************************************************************)
EXTENDS Integers, Sequences, FiniteSets, TLC

(***************************************************************************)
(* Platform parameters (platform.laser_var of the test platform) and the   *)
(* sizes of the scenarios that are explored.                               *)
(***************************************************************************)
\* clock ticks one laser bit lasts (laser_var['LASERTICKS'])
LASERTICKS == 3
\* bits in one scanline (laser_var['SCANBITS']): one more than a transport
\* word holds, so that a line takes two payload words
SCANBITS == 15
\* facets of the prism (laser_var['FACETS'])
FACETS == 2
\* width of one transport word: the opcode byte, the direction bit and a
\* half period of half a facet need 14 bits (the deployed width is 32)
MEMWIDTH == 14
\* words the transport memory holds (platform.memdepth)
MEMDEPTH == 9
\* most scanlines the host writes in one exposure
MaxLines == 2
\* most changes of synchronize and pulses of expose_start a host bound to no
\* order of events makes
MaxChanges == 3

\* the configurations params is tried on: LASERTICKS from 0, SCANBITS from
\* -1 and TICKSINFACET from 1 up to these
MaxLaserTicks == 5
MaxScanBits == 4
MaxFacetTicks == 30

\* the spin-up and stable times of a platform are tried from 1 tick up to
\* these
MaxSpinup == 8
MaxStable == 3

\* scanlines are tried with up to this many bits more than SCANBITS
MaxMoreBits == 3

\* Host.send_move: motors of the board and trials allowed (iterations)
MaxMotors == 2
MaxIterations == 9

\* the SPI master: fewest ticks between the end of a transfer and the start
\* of the next, ticks a transfer lasts past its first, and most ticks the
\* master waits beyond the fewest, all its waits together
MinGap == 3
TransferTicks == 2
MaxSlack == 41

\* ticks of blanking at the start of a facet: START% * TICKSINFACET
STARTTICKS == 2
\* SPINUP_TIME * CRYSTAL_HZ of the test platform
SPINUPTICKS == 10
\* STABLE_TIME is this many facets on the test platform
STABLEFACETS == 5
\* width of the opcode field of an instruction word
OPCODEBITS == 8
\* opcodes of the instruction words
SCANLINE == 0
LASTSCANLINE == 1

\* LEDProgram: bytes in a chunk, bits in a byte, bytes of memory (the test
\* bench builds it with memdepth=16), ticks a bit is shown (maxperiod) and
\* the width of the period counter
CHUNKSIZE == 8
LEDMEMWIDTH == 8
LEDMEMDEPTH == 16
MAXPERIOD == 5
COUNTERBITS == 16
\* LEDProgram.COMMANDS
RECVCOMMAND == 0
STATUS == 1
START == 2
STOP == 3
READ_D == 4
WRITE_L == 5

(***************************************************************************)
(* Arithmetic helpers.                                                     *)
(***************************************************************************)
Min(a, b) == IF a < b THEN a ELSE b
Max(a, b) == IF a > b THEN a ELSE b

RECURSIVE Pow2(_)
Pow2(n) == IF n = 0 THEN 1 ELSE 2 * Pow2(n - 1)

\* nmigen bits_for(n) for n >= 0: the bits needed to hold n (1 for n = 0)
RECURSIVE BitsFor(_)
BitsFor(n) == IF n < 2 THEN 1 ELSE 1 + BitsFor(n \div 2)

\* Signal(range(n)): assignments are truncated to bits_for(n - 1) bits
Trunc(v, n) == v % Pow2(BitsFor(n - 1))

\* Python's round(num / den): halves go to the even neighbour
RoundDiv(num, den) ==
    LET q == num \div den
        r == num % den
    IN  IF 2 * r < den THEN q
        ELSE IF 2 * r > den THEN q + 1
        ELSE IF q % 2 = 0 THEN q ELSE q + 1

\* bit i of word w, and w shifted right by one
Bit(w, i) == (w \div Pow2(i)) % 2
NoShift(w) == w
Shr1(w) == w \div 2

(***************************************************************************)
(* params(platform): the derived constants of the test platform.           *)
(***************************************************************************)
\* params on the test platform as a function of LASERTICKS, SCANBITS and
\* TICKSINFACET: the jitter ticks, the test of END% and the outcome.
\* START% * TICKSINFACET is STARTTICKS and END% * TICKSINFACET is
\* LASERTICKS * SCANBITS + STARTTICKS, so BITSINSCANLINE comes out as
\* SCANBITS
Jitter(l) == RoundDiv(l, 2)
\* END% > round(1 - (JITTERTICKS + 1) / TICKSINFACET): the right side is
\* rounded to an integer
EndTooHigh(l, s, t) ==
    (l * s + STARTTICKS) > t * RoundDiv(t - (Jitter(l) + 1), t)
\* the assert on LASERTICKS, the exception for END% and the one for
\* BITSINSCANLINE
Raises(l, s, t) == ~(l > 2) \/ EndTooHigh(l, s, t) \/ s <= 0

JITTERTICKS == Jitter(LASERTICKS)
\* ticks between two photodiode edges (laser_var['TICKSINFACET']): the line,
\* the blanking margin before it and the jitter window after it, with the
\* ticks the state machine spends between them
TICKSINFACET == LASERTICKS * SCANBITS + STARTTICKS + JITTERTICKS + 6
STABLETICKS == STABLEFACETS * TICKSINFACET
\* END% <= round(1 - (JITTERTICKS+1)/TICKSINFACET), the right side an integer
ENDOK == ~EndTooHigh(LASERTICKS, SCANBITS, TICKSINFACET)

\* half period of the prism pulse: int(CRYSTAL_HZ / (POLY_HZ * 6 * 2)) with
\* CRYSTAL_HZ = TICKSINFACET * FACETS * POLY_HZ on the test platform
POLYPERIOD == (TICKSINFACET * FACETS) \div 12
\* register ranges
TICKRANGE == TICKSINFACET * 2


(***************************************************************************)
(* State.                                                                  *)
(***************************************************************************)
VARIABLES
    \* configuration, fixed at construction: the two modes and the bits of
    \* a scanline (laser_var['SCANBITS'])
    single_line, single_facet, scanbits,
    \* which of the two free running generators the harness watches: "step",
    \* "pwm" or "none".  Nothing in the Laserhead reads their registers, so
    \* a scenario carries only the generator its test looks at
    probe,
    \* which harness drives the engine: "sim" (DiodeSimulator), or "free"
    \* or "dark" (Laserhead alone, the photodiode an input), and the host
    diode, scen,
    \* inputs of the engine
    synchronize, photodiode, expose_start,
    \* Laserhead: outputs
    error, synchronized, enable_prism, lasers, read_en, read_commit,
    read_discard, expose_finished, dir,
    \* Laserhead: internal registers
    pc, move, stephalfperiod, facetcnt, stablecntr, stablethresh, lasercnt,
    scanbit, tickcounter, read_old, readbit, photodiode_d, process_lines,
    expose_start_d,
    \* DiodeSimulator
    diodecounter,
    \* transport: memory, read port register and the four pointers
    mem, rd, cur_write, com_write, cur_read, com_read,
    \* host: the words it has to write, its position, and the changes of
    \* its control inputs it has made
    prog, ppos, hpc, changes,
    \* observers: bits put on laser channel 0 in the running line, words
    \* taken from the transport for it, finalize
    \* steps since the last enable_read, instruction reads issued,
    \* finalize steps of scanlines, and how far the host is with a retry
    \* while the engine sits in STOP with error set
    emitted, fetched, fin, ireads, linecommits, retry,
    \* enable_read pulses for payload words in the running line
    preads,
    \* Laserhead: step generator and prism pulse generator
    step, stepcnt, pwm, pwmcnt,
    \* count_steps: the signed falling edges of step it has counted, and
    \* the ticks pwm has been at its present level
    steps, pwmticks,
    \* ticks in a row the engine has run, past SPINUP, with synchronize low
    lowticks,
    \* test_stopline: the state the engine was in when the host took
    \* synchronize away ("none" before)
    dropped,
    \* params: laser_var['LASERTICKS'] and laser_var['TICKSINFACET'] as
    \* given, and whether params has "raised" or "returned" ("none" before
    \* it is called)
    laserticks, ticksinfacet, raised,
    \* params: SPINUPTICKS and STABLETICKS as they come out for the platform
    spinupticks, stableticks,
    \* ticks in a row the engine has been in SPINUP
    spinticks,
    \* test_sync: 1 once WAIT_STABLE has rejected an edge, 2 once the edge
    \* after a rejected one has been accepted, 0 otherwise
    rejected,
    \* Laserhead: the photodiode_triggered block, its output, its tick
    \* counter and its latch
    photodiode_t, photodiodecnt, triggered,
    \* whether the photodiode has been low on a tick of the running window
    lowseen,
    \* Host.send_move: the motors of the board, the argument iterations,
    \* the locals commands, trials and data_out (of the reply only the
    \* memory full bit is kept: 255 has it set), where the call stands
    \* ("while", "for", "returned", "TooManyTrials", "IndexError"; "idle"
    \* when it is not called), and the place of the for loop in commands
    motors, iterations, commands, trials, data_out, sendpc, cmdidx,
    \* the commands the device has taken, in the order it took them
    delivered,
    \* LEDProgram: the SPI slave's signals (start, done and the two data
    \* registers) and the edge detectors on done and start
    spi_start, spi_done, spi_mosi, spi_miso, done_d, start_d,
    \* LEDProgram: the three state machines
    memory, receiver, ledfsm,
    \* LEDProgram: status registers, the command in progress and the byte
    \* of the chunk that comes next
    ledstate, lederror, command, writebyte,
    \* LEDProgram: the memory, its write port and its read port
    ledmem, write_adr, write_dat_w, write_we, read_adr, read_re, read_dat_r,
    \* LEDProgram: written flag, bit position, byte being shown, period
    \* counter, the flag "have read", and the LED
    written, ledreadbit, dat_r_temp, counter, ledread, led,
    \* the SPI master of the test bench: whether a transfer runs, ticks it
    \* has spent in that phase, the byte it sends, the reply it got, the
    \* commands of its script it has sent, the data bytes it still means to
    \* send (-1 while a WRITE_L is under way), the number of the next data
    \* byte, its script and the ticks it has waited beyond the fewest
    master, mwait, sent, reply, trans, todo, nsent, script, slack,
    \* observers of the receiver: the write address when the last WRITE_L
    \* was accepted and the bytes received in data mode since
    chunkbase, chunk

cfgvars == <<single_line, single_facet, scanbits, probe, diode, scen>>
inputs == <<synchronize, photodiode, expose_start>>
outputs == <<error, synchronized, enable_prism, lasers, read_en, read_commit,
             read_discard, expose_finished, dir>>
regs == <<pc, move, stephalfperiod, facetcnt, stablecntr, stablethresh,
          lasercnt, scanbit, tickcounter, read_old, readbit, photodiode_d,
          process_lines, expose_start_d>>
fifovars == <<mem, rd, cur_write, com_write, cur_read, com_read>>
hostvars == <<prog, ppos, hpc, changes>>
obsvars == <<emitted, fetched, fin, ireads, linecommits, retry, preads,
             steps, pwmticks, lowticks, dropped, spinticks,
             rejected>>
genvars == <<step, stepcnt, pwm, pwmcnt>>
paramvars == <<laserticks, ticksinfacet, raised, spinupticks, stableticks>>

\* the threshold set when a line is read: min(round(10.1*T), STABLETICKS)
READTHRESH == Min(RoundDiv(101 * TICKSINFACET, 10), stableticks)
\* the range of stablecntr
STABLERANGE == Max(spinupticks, stableticks)
\* LEDProgram, the SPI slave in it and the SPI master of its test bench
ledvars == <<spi_start, spi_done, spi_mosi, spi_miso, done_d, start_d,
             memory, receiver, ledfsm, ledstate, lederror, command,
             writebyte, ledmem, write_adr, write_dat_w, write_we, read_adr,
             read_re, read_dat_r, written, ledreadbit, dat_r_temp, counter,
             ledread, led, master, mwait, sent, reply, trans, todo, nsent,
             script, slack, chunkbase, chunk>>
\* everything of the Laserhead, its transport and its test benches
headvars == <<inputs, outputs, regs, diodecounter, fifovars, hostvars,
              obsvars, genvars, photodiode_t, photodiodecnt, triggered,
              lowseen, motors, iterations, commands, trials, data_out,
              sendpc, cmdidx, delivered>>
vars == <<cfgvars, headvars, paramvars, ledvars>>

\* params(platform), the part that depends on the configuration
BITSINSCANLINE == scanbits
ParamsOK == LASERTICKS > 2 /\ ENDOK /\ BITSINSCANLINE > 0

(***************************************************************************)
(* Words the host writes (Host.bittobytelist and BaseTest.write_line).     *)
(***************************************************************************)
\* the marker in a program for a pulse of write_commit
COMMIT == -1
\* the marker for a tick on which the host writes nothing
IDLE == -2
WORDS == 0 .. (Pow2(MEMWIDTH) - 1)

\* instruction word of a scanline: opcode, direction bit, half period
InstrWord(direction, halfperiod) ==
    (SCANLINE + direction * Pow2(OPCODEBITS)
        + halfperiod * Pow2(OPCODEBITS + 1)) % Pow2(MEMWIDTH)

\* round(stepsperline * TICKSINFACET / 2) for stepsperline = 1, kept within
\* the bits the word leaves for the half period
HALFPERIOD ==
    Min(RoundDiv(TICKSINFACET, 2), Pow2(MEMWIDTH - OPCODEBITS - 1) - 1)

\* words that carry the bits of one scanline
PAYLOADWORDS == (BITSINSCANLINE + MEMWIDTH - 1) \div MEMWIDTH

\* bit k (0 .. BITSINSCANLINE-1) of the scanline with pattern p
RECURSIVE PackBits(_, _, _)
PatternBit(p, k) ==
    CASE p = 0 -> 0
      [] p = 1 -> 1
      [] p = 2 -> (k + 1) % 2
      [] OTHER -> k % 2
\* payload word j of pattern p: bit i of the word is bit j*MEMWIDTH + i
PackBits(p, j, i) ==
    IF i = MEMWIDTH THEN 0
    ELSE (IF j * MEMWIDTH + i < BITSINSCANLINE THEN PatternBit(p, j * MEMWIDTH + i)
          ELSE 0) + 2 * PackBits(p, j, i + 1)
PayloadWord(p, j) == PackBits(p, j, 0)

\* the patterns a scanline may carry, and an opcode that is no instruction
PATTERNS == {1, 2}
INVALIDWORD == 2

\* a line is a record: kind "scan" (direction, pattern), "last" or "bad"
ScanLine(d, p) == [kind |-> "scan", direction |-> d, pattern |-> p]
LastLine == [kind |-> "last", direction |-> 0, pattern |-> 0]
BadLine == [kind |-> "bad", direction |-> 0, pattern |-> 0]

\* write_line: the words of the line, then a pulse of write_commit
LineItems(line) ==
    CASE line.kind = "scan" ->
            <<InstrWord(line.direction, HALFPERIOD)>>
            \o [j \in 1 .. PAYLOADWORDS |-> PayloadWord(line.pattern, j - 1)]
            \o <<COMMIT>>
      [] line.kind = "last" ->
            <<LASTSCANLINE + line.direction * Pow2(OPCODEBITS), COMMIT>>
      [] OTHER -> <<INVALIDWORD, COMMIT>>

RECURSIVE Program(_)
Program(lines) ==
    IF lines = <<>> THEN <<>>
    ELSE LineItems(Head(lines)) \o Program(Tail(lines))

\* scanlineringbuffer: n scanlines and then the empty line
RECURSIVE SeqsOf(_, _)
SeqsOf(S, n) ==
    IF n = 0 THEN {<<>>}
    ELSE {<<x>> \o s : x \in S, s \in SeqsOf(S, n - 1)}
RingLines ==
    UNION {{s \o <<LastLine>> : s \in SeqsOf({ScanLine(0, p) : p \in PATTERNS}, n)}
           : n \in 0 .. MaxLines}
\* what the host writes while the engine runs
StreamLines ==
    { <<ScanLine(1, 1), ScanLine(0, 2), LastLine>>,
      <<ScanLine(0, 2), LastLine, ScanLine(1, 1), LastLine>>,
      <<ScanLine(1, 2), BadLine, ScanLine(0, 1)>> }

\* test_movement: two exposures of n scanlines of ones, the first with
\* direction d1 and the second with direction d2
MoveLines(n, d1, d2) ==
    [i \in 1 .. n |-> ScanLine(d1, 1)] \o <<LastLine>>
        \o [i \in 1 .. n |-> ScanLine(d2, 1)] \o <<LastLine>>

(***************************************************************************)
(* The transport: luna's TransactionalizedFIFO of MEMDEPTH words.          *)
(***************************************************************************)
NextPtr(p) == IF p = MEMDEPTH THEN 0 ELSE p + 1
empty == cur_read = com_write
full == NextPtr(cur_write) = com_read
read_data == rd

\* a read moves the read pointer when read_en is high and a word is there
ReadAdvances == read_en = 1 /\ ~empty
ReadAddr == IF ReadAdvances THEN NextPtr(cur_read) ELSE cur_read

\* one tick of the transport; item is the host's word, COMMIT or IDLE
Fifo(item) ==
    LET writes == item \in WORDS /\ ~full
    IN  /\ mem' = IF writes THEN [mem EXCEPT ![cur_write] = item] ELSE mem
        /\ cur_write' = IF writes THEN NextPtr(cur_write) ELSE cur_write
        /\ com_write' = IF item = COMMIT THEN cur_write ELSE com_write
        /\ cur_read' = IF read_discard = 1 THEN com_read ELSE ReadAddr
        /\ com_read' = IF read_commit = 1 THEN cur_read ELSE com_read
        /\ rd' = mem'[ReadAddr]

(***************************************************************************)
(* DiodeSimulator: the photodiode goes low near the end of each facet when *)
(* the prism motor is enabled and a laser is on.                           *)
(***************************************************************************)
DiodeLevel == IF enable_prism = 0 /\ lasers > 0 THEN 0 ELSE 1

DiodeSim ==
    IF diodecounter = TICKSINFACET - 1
    THEN diodecounter' = 0 /\ photodiode' = photodiode
    ELSE IF diodecounter > TICKSINFACET - 4
    THEN diodecounter' = diodecounter + 1 /\ photodiode' = DiodeLevel
    ELSE diodecounter' = diodecounter + 1 /\ photodiode' = 1

\* without the simulator the photodiode is an input: "free" drives it at
\* will, "dark" holds it high as BaseTest.initialize_signals leaves it
Diode ==
    CASE diode = "sim" -> DiodeSim
      [] diode = "free" -> diodecounter' = diodecounter /\ photodiode' \in {0, 1}
      [] OTHER -> diodecounter' = diodecounter /\ photodiode' = 1

(***************************************************************************)
(* The host.  "ring" is BaseTest.scanlineringbuffer: write every line,     *)
(* pulse expose_start, assert synchronize.  "stream" is                    *)
(* SinglelineTest.test_single_line: write the first line, assert           *)
(* synchronize, pulse expose_start, write the other lines while the engine *)
(* runs.  "free" writes its lines and then drives synchronize and          *)
(* expose_start (in pulses of one tick) at will, up to MaxChanges times.   *)
(***************************************************************************)
NextItem == IF ppos <= Len(prog) THEN prog[ppos] ELSE IDLE

HostRing ==
    CASE hpc = "write" /\ ppos <= Len(prog) ->
            /\ Fifo(NextItem)
            /\ ppos' = ppos + 1
            /\ UNCHANGED <<hpc, synchronize, expose_start, changes>>
      [] hpc = "write" /\ ppos > Len(prog) ->
            /\ Fifo(IDLE)
            /\ hpc' = "pulse" /\ expose_start' = 1
            /\ UNCHANGED <<ppos, synchronize, changes>>
      [] hpc = "pulse" ->
            /\ Fifo(IDLE)
            /\ hpc' = "run" /\ expose_start' = 0 /\ synchronize' = 1
            /\ UNCHANGED <<ppos, changes>>
      [] OTHER ->
            /\ Fifo(IDLE)
            /\ UNCHANGED <<hpc, ppos, synchronize, expose_start, changes>>

\* the host writes its next item, if the transport has room for it
MayWrite == ppos <= Len(prog) /\ ~(NextItem \in WORDS /\ full)

HostStream ==
    CASE hpc = "write" /\ (ppos = 1 \/ prog[ppos - 1] # COMMIT) ->
            /\ Fifo(NextItem)
            /\ ppos' = ppos + 1
            /\ UNCHANGED <<hpc, synchronize, expose_start, changes>>
      [] hpc = "write" /\ ppos > 1 /\ prog[ppos - 1] = COMMIT ->
            /\ Fifo(IDLE)
            /\ hpc' = "pulse" /\ synchronize' = 1 /\ expose_start' = 1
            /\ UNCHANGED <<ppos, changes>>
      [] hpc = "pulse" ->
            /\ Fifo(IDLE)
            /\ hpc' = "run" /\ expose_start' = 0
            /\ UNCHANGED <<ppos, synchronize, changes>>
      [] OTHER ->
            /\ \E w \in BOOLEAN :
                  IF w /\ MayWrite
                  THEN Fifo(NextItem) /\ ppos' = ppos + 1
                  ELSE Fifo(IDLE) /\ ppos' = ppos
            /\ UNCHANGED <<hpc, synchronize, expose_start, changes>>

Changed(a, b) == IF a = b THEN 0 ELSE 1
HostFree ==
    IF ppos <= Len(prog)
    THEN /\ Fifo(NextItem)
         /\ ppos' = ppos + 1
         /\ UNCHANGED <<hpc, synchronize, expose_start, changes>>
    ELSE /\ Fifo(IDLE)
         /\ synchronize' \in {0, 1}
         /\ expose_start' \in (IF expose_start = 1 THEN {0} ELSE {0, 1})
         /\ changes' = changes + Changed(synchronize, synchronize')
                                + expose_start'
         /\ changes' <= MaxChanges
         /\ UNCHANGED <<hpc, ppos>>

\* test_movement, domove twice: write the lines of an exposure, assert
\* synchronize, pulse expose_start, then count_steps until expose_finished
EndOfExposure == ppos - 1 \in {Len(prog) \div 2, Len(prog)}
HostMove ==
    CASE hpc = "write" /\ ~EndOfExposure ->
            /\ Fifo(NextItem)
            /\ ppos' = ppos + 1
            /\ UNCHANGED <<hpc, synchronize, expose_start, changes>>
      [] hpc = "write" /\ EndOfExposure ->
            /\ Fifo(IDLE)
            /\ hpc' = "pulse" /\ synchronize' = 1 /\ expose_start' = 1
            /\ UNCHANGED <<ppos, changes>>
      [] hpc = "pulse" ->
            /\ Fifo(IDLE)
            /\ hpc' = "settle" /\ expose_start' = 0
            /\ UNCHANGED <<ppos, synchronize, changes>>
      [] hpc = "settle" ->
            /\ Fifo(IDLE)
            /\ hpc' = "count"
            /\ UNCHANGED <<ppos, synchronize, expose_start, changes>>
      [] hpc = "count" /\ expose_finished = 1 /\ ppos <= Len(prog) ->
            /\ Fifo(NextItem)
            /\ ppos' = ppos + 1 /\ hpc' = "write"
            /\ UNCHANGED <<synchronize, expose_start, changes>>
      [] hpc = "count" /\ expose_finished = 1 /\ ppos > Len(prog) ->
            /\ Fifo(IDLE)
            /\ hpc' = "run"
            /\ UNCHANGED <<ppos, synchronize, expose_start, changes>>
      [] OTHER ->
            /\ Fifo(IDLE)
            /\ UNCHANGED <<hpc, ppos, synchronize, expose_start, changes>>

\* test_stopline: write the lines, assert synchronize and pulse
\* expose_start, wait until the engine has left STOP, take synchronize away
\* and keep it low.  The host starts and takes synchronize away when it
\* likes
HostStop ==
    CASE hpc = "write" /\ ppos <= Len(prog) ->
            /\ Fifo(NextItem)
            /\ ppos' = ppos + 1
            /\ UNCHANGED <<hpc, synchronize, expose_start, changes>>
      [] hpc = "write" /\ ppos > Len(prog) ->
            /\ Fifo(IDLE)
            /\ \E go \in BOOLEAN :
                  IF go
                  THEN hpc' = "pulse" /\ synchronize' = 1 /\ expose_start' = 1
                  ELSE UNCHANGED <<hpc, synchronize, expose_start>>
            /\ UNCHANGED <<ppos, changes>>
      [] hpc = "pulse" ->
            /\ Fifo(IDLE)
            /\ hpc' = "run" /\ expose_start' = 0
            /\ UNCHANGED <<ppos, synchronize, changes>>
      [] hpc = "run" /\ pc \notin {"RESET", "STOP"} ->
            /\ Fifo(IDLE)
            /\ \E drop \in BOOLEAN :
                  IF drop
                  THEN hpc' = "low" /\ synchronize' = 0
                  ELSE UNCHANGED <<hpc, synchronize>>
            /\ UNCHANGED <<ppos, expose_start, changes>>
      [] OTHER ->
            /\ Fifo(IDLE)
            /\ UNCHANGED <<hpc, ppos, synchronize, expose_start, changes>>

Host ==
    /\ prog' = prog
    /\ CASE scen = "ring" -> HostRing
         [] scen = "stream" -> HostStream
         [] scen = "move" -> HostMove
         [] scen = "stop" -> HostStop
         [] OTHER -> HostFree

(***************************************************************************)
(* Laserhead: the step generator and the pulse generator of the prism      *)
(* motor.  Both run on every tick beside the state machine.                *)
(***************************************************************************)
\* the counter has reached the half period.  The counter is a register of
\* 56 bits and the half period one of 55 bits: the counter stops at the
\* half period and so never wraps
StepDueNever(cnt, half) == FALSE
StepDue(cnt, half) == ~(cnt < half)
StepGen ==
    IF move = 1
    THEN IF StepDue(stepcnt, stephalfperiod)
         THEN stepcnt' = 0 /\ step' = 1 - step
         ELSE stepcnt' = stepcnt + 1 /\ step' = step
    ELSE stepcnt' = stepcnt /\ step' = step

\* the pulse is due
PwmDueLate(cnt) == FALSE
PwmDue(cnt) == cnt = 0
Pwm ==
    IF PwmDue(pwmcnt)
    THEN pwm' = 1 - pwm /\ pwmcnt' = POLYPERIOD - 1
    ELSE pwm' = pwm /\ pwmcnt' = pwmcnt - 1

Generators ==
    /\ IF probe = "step" THEN StepGen ELSE UNCHANGED <<step, stepcnt>>
    /\ IF probe = "pwm" THEN Pwm ELSE UNCHANGED <<pwm, pwmcnt>>
    /\ pwmticks' = IF probe # "pwm" THEN pwmticks
                   ELSE IF pwm' = pwm THEN pwmticks + 1 ELSE 1

\* count_steps: a falling edge of step counts up or down with dir, both
\* read after the tick, while expose_finished is low before it
CountSteps ==
    steps' = CASE hpc = "pulse" -> 0
               [] scen = "move" /\ hpc = "count" /\ expose_finished = 0 ->
                    steps + (IF step = 1 /\ step' = 0
                             THEN (IF dir' = 1 THEN 1 ELSE -1)
                             ELSE 0)
               [] OTHER -> steps


(***************************************************************************)
(* Laserhead: the exposure start detector and the observers.               *)
(***************************************************************************)
Rising == expose_start_d = 0 /\ expose_start = 1

\* the detector alone decides process_lines and expose_finished
ExposeDetector ==
    /\ expose_start_d' = expose_start
    /\ process_lines' = IF Rising THEN 1 ELSE process_lines
    /\ expose_finished' = IF Rising THEN 0 ELSE expose_finished

CapCount == MaxLines + 2
Count(n) == Min(n + 1, CapCount)

\* the retry of the host while the engine is in STOP with error set:
\* "low" once a tick has seen synchronize low, "high" once a later tick
\* has seen it high again with the photodiode inactive
Retry ==
    retry' = IF pc = "STOP" /\ error = 1
             THEN (IF synchronize = 0 THEN "low"
                   ELSE IF retry = "low" /\ photodiode = 1 THEN "high"
                   ELSE retry)
             ELSE "none"

\* the states after SPINUP, and twice a facet, the time within which a
\* cancellation is expected to have stopped the engine
RUNNING ==
    {"WAIT_STABLE", "READ_INSTRUCTION", "WAIT_FOR_DATA_RUN", "DATA_RUN",
     "WAIT_END"}
MAXLATENCY == 2 * TICKSINFACET
Latency ==
    lowticks' = IF probe = "latency" /\ synchronize = 0 /\ pc \in RUNNING
                THEN Min(lowticks + 1, stableticks + 1)
                ELSE 0

Spinning ==
    spinticks' = IF probe = "spin" /\ pc = "SPINUP"
                 THEN Min(spinticks + 1, spinupticks + 2)
                 ELSE 0

Dropped ==
    dropped' = IF scen = "stop" /\ synchronize = 1 /\ synchronize' = 0
               THEN pc ELSE dropped

(***************************************************************************)
(* Laserhead: the tests the state machine makes.                           *)
(***************************************************************************)
\* STOP: the laser is off, so a low photodiode is a fault
PreSpinFaultInverted(pd) == pd = 1
PreSpinFault(pd) == pd = 0
\* SPINUP: the spin-up time is over
SpinupDone(sc) == sc > spinupticks - 1
\* WAIT_STABLE: the watchdog
WatchdogLate(sc, th) == sc > th
Watchdog(sc, th) == sc >= th
\* WAIT_STABLE: the photodiode is low on this tick and on the one latched
EdgeSeen(pd, pdd) == pd = 0 /\ pdd = 0
\* WAIT_STABLE: the acceptance window of the tick counter
InWindowInclusive(tc) ==
    /\ tc >= (TICKSINFACET - 1) - JITTERTICKS
    /\ tc <= (TICKSINFACET - 1) + JITTERTICKS
InWindow(tc) ==
    /\ tc > (TICKSINFACET - 1) - JITTERTICKS
    /\ tc < (TICKSINFACET - 1) + JITTERTICKS
\* WAIT_STABLE: facets skipped in single facet mode
SkipNoFacet(fc) == FALSE
SkipFacet(fc) == single_facet /\ fc > 0
\* WAIT_STABLE: nothing to read
NoLineWhenEmpty(e, pl) == e
NoLine(e, pl) == e \/ pl = 0
\* READ_INSTRUCTION: decoding
IsScanlineWhole(w) == w = SCANLINE
IsScanline(w) == w % Pow2(OPCODEBITS) = SCANLINE
IsLastScanline(w) == w = LASTSCANLINE
\* READ_INSTRUCTION: read_data[9:], the half period of a Scanline word
StepHalfPeriodWithDir(w) == w \div Pow2(OPCODEBITS)
StepHalfPeriod(w) == w \div Pow2(OPCODEBITS + 1)
\* WAIT_FOR_DATA_RUN: the blanking margin is over
StartReached(tc) == tc >= STARTTICKS
\* DATA_RUN: every bit of the line is out
LineDone(sb) == sb >= BITSINSCANLINE
\* DATA_RUN, at the last bit of a word: another word is fetched only if
\* the line has bits left
MoreNeededAlways(sb) == TRUE
MoreNeeded(sb) == sb < BITSINSCANLINE
\* DATA_RUN: the line is discarded, not committed
DiscardsWhenEmpty(e) == e
Discards(e) == single_line /\ e
\* WAIT_END: the pulse that is lowered is read_discard, not read_commit
LowersDiscard(e) == single_line /\ e
\* WAIT_END: the facet is over
WaitEndDone(tc) == tc >= TICKSINFACET - JITTERTICKS - 2

IncTick(tc) == Trunc(tc + 1, TICKRANGE)

\* what WAIT_STABLE does with the edges it registers
Rejected ==
    rejected' =
        IF probe # "sync" \/ pc = "STOP" THEN 0
        ELSE IF pc # "WAIT_STABLE" THEN rejected
        ELSE IF Watchdog(stablecntr, stablethresh) THEN 0
        ELSE IF ~EdgeSeen(photodiode, photodiode_d) THEN rejected
        ELSE IF ~InWindow(tickcounter) THEN 1
        ELSE IF rejected = 1 THEN 2 ELSE 0

\* everything around the state machine that runs on every tick
\* the photodiode_triggered block: it samples the photodiode on every tick
\* but the last of a window of 2 * TICKSINFACET ticks and hands the latch
\* to photodiode_t on the last.  Nothing in the engine reads it, so only
\* the scenario that watches it carries it
PhotodiodeTriggered ==
    IF probe # "window"
    THEN UNCHANGED <<photodiode_t, photodiodecnt, triggered, lowseen>>
    ELSE IF photodiodecnt < TICKSINFACET * 2 - 1
    THEN /\ triggered' = IF photodiode = 1 THEN 1 ELSE triggered
         /\ photodiodecnt' = photodiodecnt + 1
         /\ photodiode_t' = photodiode_t
         /\ lowseen' = IF photodiode = 0 THEN 1 ELSE lowseen
    ELSE /\ photodiode_t' = triggered
         /\ photodiodecnt' = 0
         /\ triggered' = 0
         /\ lowseen' = 0

Around ==
    /\ Diode /\ Host /\ Retry /\ Generators /\ Latency /\ Dropped
    /\ Spinning /\ Rejected /\ PhotodiodeTriggered
    /\ UNCHANGED <<paramvars, ledvars, motors, iterations, commands, trials,
                   data_out, sendpc, cmdidx, delivered>>
IncStable(sc) == Trunc(sc + 1, STABLERANGE)

(***************************************************************************)
(* Laserhead: one action per state of the laser FSM.                       *)
(***************************************************************************)
TickReset ==
    /\ pc = "RESET"
    /\ error' = 0
    /\ pc' = "STOP"
    /\ ExposeDetector
    /\ Around
    /\ UNCHANGED <<cfgvars, synchronized, enable_prism, lasers, read_en,
                   read_commit, read_discard, dir, move, stephalfperiod,
                   facetcnt, stablecntr, stablethresh, lasercnt, scanbit,
                   tickcounter, read_old, readbit, photodiode_d,
                   emitted, fetched, fin, ireads, linecommits, preads>>
    /\ CountSteps

\* keepfacet is 0 in the Laserhead: STOP returns the facet counter to 0
Stop(keepfacet) ==
    /\ pc = "STOP"
    /\ stablethresh' = Trunc(stableticks - 1, stableticks)
    /\ stablecntr' = 0
    /\ synchronized' = 0
    /\ readbit' = 0
    /\ facetcnt' = IF keepfacet = 1 THEN facetcnt ELSE 0
    /\ scanbit' = 0
    /\ lasercnt' = 0
    /\ lasers' = 0
    /\ IF synchronize = 1 /\ error = 0
       THEN IF PreSpinFault(photodiode)
            THEN error' = 1 /\ enable_prism' = 1 /\ pc' = "STOP"
            ELSE error' = 0 /\ enable_prism' = 0 /\ pc' = "SPINUP"
       ELSE error' = error /\ enable_prism' = 1 /\ pc' = "STOP"
    /\ ExposeDetector
    /\ Around
    /\ UNCHANGED <<cfgvars, read_en, read_commit, read_discard, dir, move,
                   stephalfperiod, tickcounter, read_old, photodiode_d,
                   emitted, fetched, fin, ireads, linecommits, preads>>
    /\ CountSteps

TickStopKeepsFacet == Stop(1)
TickStop == Stop(0)

TickSpinup ==
    /\ pc = "SPINUP"
    /\ IF SpinupDone(stablecntr)
       THEN lasers' = 3 /\ stablecntr' = 0 /\ pc' = "WAIT_STABLE"
       ELSE lasers' = lasers /\ stablecntr' = IncStable(stablecntr)
            /\ pc' = "SPINUP"
    /\ ExposeDetector
    /\ Around
    /\ UNCHANGED <<cfgvars, error, synchronized, enable_prism, read_en,
                   read_commit, read_discard, dir, move, stephalfperiod,
                   facetcnt, stablethresh, lasercnt, scanbit, tickcounter,
                   read_old, readbit, photodiode_d,
                   emitted, fetched, fin, ireads, linecommits, preads>>
    /\ CountSteps

TickWaitStable ==
    LET wd == Watchdog(stablecntr, stablethresh)
        edge == ~wd /\ EdgeSeen(photodiode, photodiode_d)
        acc == edge /\ InWindow(tickcounter)
        rej == edge /\ ~acc
        skip == acc /\ (SkipFacet(facetcnt) \/ NoLine(empty, process_lines))
        read == acc /\ ~skip
    IN  /\ pc = "WAIT_STABLE"
        /\ photodiode_d' = photodiode
        /\ error' = IF wd THEN 1 ELSE error
        /\ pc' = IF wd THEN "STOP"
                 ELSE IF read THEN "READ_INSTRUCTION"
                 ELSE IF edge THEN "WAIT_END"
                 ELSE "WAIT_STABLE"
        /\ tickcounter' = IF wd THEN tickcounter
                          ELSE IF edge THEN 0
                          ELSE IncTick(tickcounter)
        /\ lasers' = IF edge THEN 0 ELSE lasers
        /\ stablecntr' = IF wd \/ rej THEN stablecntr
                         ELSE IF acc THEN 0
                         ELSE IncStable(stablecntr)
        /\ synchronized' = IF acc THEN 1 ELSE IF rej THEN 0 ELSE synchronized
        /\ facetcnt' = IF acc
                       THEN (IF facetcnt = FACETS - 1 THEN 0
                             ELSE Trunc(facetcnt + 1, FACETS))
                       ELSE facetcnt
        /\ move' = IF skip \/ rej THEN 0 ELSE move
        /\ stablethresh' = IF read THEN Trunc(READTHRESH, stableticks)
                           ELSE stablethresh
        /\ read_en' = IF read THEN 1 ELSE read_en
        /\ fin' = IF read THEN 0 ELSE fin
        /\ ireads' = IF read THEN Count(ireads) ELSE ireads
        /\ ExposeDetector
        /\ Around
        /\ UNCHANGED <<cfgvars, enable_prism, read_commit, read_discard, dir,
                       stephalfperiod, lasercnt, scanbit, read_old, readbit,
                       emitted, fetched, linecommits, preads>>
        /\ CountSteps

\* lastcommit: what the LASTSCANLINE branch assigns to read_commit
ReadInstruction(lastcommit) ==
    LET scan == IsScanline(read_data)
        last == ~scan /\ IsLastScanline(read_data)
        bad == ~scan /\ ~last
    IN  /\ pc = "READ_INSTRUCTION"
        /\ read_en' = 0
        /\ tickcounter' = IncTick(tickcounter)
        /\ move' = IF scan THEN 1 ELSE IF last THEN 0 ELSE move
        /\ dir' = IF scan THEN Bit(read_data, OPCODEBITS) ELSE dir
        /\ stephalfperiod' = IF scan THEN StepHalfPeriod(read_data)
                             ELSE stephalfperiod
        /\ read_commit' = IF last THEN lastcommit ELSE read_commit
        /\ error' = IF bad THEN 1 ELSE error
        /\ pc' = IF scan THEN "WAIT_FOR_DATA_RUN"
                 ELSE IF last THEN "WAIT_END"
                 ELSE "READ_INSTRUCTION"
        \* the state machine's assignments come after the detector's
        /\ expose_start_d' = expose_start
        /\ process_lines' = IF last THEN 0
                            ELSE IF Rising THEN 1 ELSE process_lines
        /\ expose_finished' = IF last THEN 1
                              ELSE IF Rising THEN 0 ELSE expose_finished
        /\ fin' = IF last /\ lastcommit = 1 THEN Min(fin + 1, 2) ELSE fin
        /\ Around
        /\ UNCHANGED <<cfgvars, synchronized, enable_prism, lasers,
                       read_discard, facetcnt, stablecntr, stablethresh,
                       lasercnt, scanbit, read_old, readbit, photodiode_d,
                       emitted, fetched, ireads, linecommits, preads>>
        /\ CountSteps

TickReadInstructionNoCommit == ReadInstruction(0)
TickReadInstruction == ReadInstruction(1)

TickWaitForDataRun ==
    /\ pc = "WAIT_FOR_DATA_RUN"
    /\ tickcounter' = IncTick(tickcounter)
    /\ readbit' = 0
    /\ scanbit' = 0
    /\ lasercnt' = 0
    /\ IF StartReached(tickcounter)
       THEN read_en' = 1 /\ pc' = "DATA_RUN" /\ fin' = 0 /\ preads' = 1
       ELSE /\ read_en' = read_en /\ pc' = "WAIT_FOR_DATA_RUN"
            /\ fin' = fin /\ preads' = 0
    /\ emitted' = <<>> /\ fetched' = <<>>
    /\ ExposeDetector
    /\ Around
    /\ UNCHANGED <<cfgvars, error, synchronized, enable_prism, lasers,
                   read_commit, read_discard, dir, move, stephalfperiod,
                   facetcnt, stablecntr, stablethresh, read_old, photodiode_d,
                   ireads, linecommits>>
    /\ CountSteps

TickDataRun ==
    LET tick0 == lasercnt = 0
        done == tick0 /\ LineDone(scanbit)
        bitstart == tick0 /\ ~done
        \* the tick before the next bit starts
        turn == ~tick0 /\ lasercnt = 1
        outbit == IF readbit = 0 THEN Bit(read_data, 0) ELSE Bit(read_old, 0)
    IN  /\ pc = "DATA_RUN"
        /\ tickcounter' = IncTick(tickcounter)
        /\ read_discard' = IF done /\ Discards(empty) THEN 1 ELSE read_discard
        /\ read_commit' = IF done /\ ~Discards(empty) THEN 1 ELSE read_commit
        /\ pc' = IF done THEN "WAIT_END" ELSE "DATA_RUN"
        /\ lasercnt' = IF done THEN lasercnt
                       ELSE IF bitstart THEN LASERTICKS - 1
                       ELSE lasercnt - 1
        /\ scanbit' = IF bitstart THEN Trunc(scanbit + 1, BITSINSCANLINE + 1)
                      ELSE scanbit
        /\ lasers' = IF bitstart THEN (lasers \div 2) * 2 + outbit ELSE lasers
        /\ read_old' = IF bitstart /\ readbit = 0 THEN Shr1(read_data)
                       ELSE IF turn /\ readbit # 0 /\ readbit # MEMWIDTH - 1
                       THEN Shr1(read_old)
                       ELSE read_old
        /\ read_en' = IF bitstart /\ readbit = 0 THEN 0
                      ELSE IF turn /\ readbit # 0 /\ readbit = MEMWIDTH - 1
                              /\ MoreNeeded(scanbit)
                      THEN 1
                      ELSE read_en
        /\ readbit' = IF turn
                      THEN (IF readbit # 0 /\ readbit = MEMWIDTH - 1 THEN 0
                            ELSE Trunc(readbit + 1, MEMWIDTH))
                      ELSE readbit
        /\ emitted' = IF bitstart THEN Append(emitted, outbit) ELSE emitted
        /\ fetched' = IF bitstart /\ readbit = 0 THEN Append(fetched, read_data)
                      ELSE fetched
        /\ preads' = IF read_en = 0 /\ read_en' = 1 THEN preads + 1 ELSE preads
        /\ fin' = IF done THEN Min(fin + 1, 2)
                  ELSE IF read_en' = 1 /\ read_en = 0 THEN 0
                  ELSE fin
        /\ linecommits' = IF done /\ ~Discards(empty) THEN Count(linecommits)
                          ELSE linecommits
        /\ ExposeDetector
        /\ Around
        /\ UNCHANGED <<cfgvars, error, synchronized, enable_prism, dir, move,
                       stephalfperiod, facetcnt, stablecntr, stablethresh,
                       photodiode_d, ireads>>
        /\ CountSteps

TickWaitEnd ==
    /\ pc = "WAIT_END"
    /\ stablecntr' = IncStable(stablecntr)
    /\ tickcounter' = IncTick(tickcounter)
    /\ IF LowersDiscard(empty)
       THEN read_discard' = 0 /\ read_commit' = read_commit
       ELSE read_commit' = 0 /\ read_discard' = read_discard
    /\ IF WaitEndDone(tickcounter)
       THEN lasers' = 3 /\ pc' = "WAIT_STABLE"
       ELSE lasers' = lasers
            /\ pc' = IF synchronize = 0 THEN "STOP" ELSE "WAIT_END"
    /\ ExposeDetector
    /\ Around
    /\ UNCHANGED <<cfgvars, error, synchronized, enable_prism, read_en, dir,
                   move, stephalfperiod, facetcnt, stablethresh, lasercnt,
                   scanbit, read_old, readbit, photodiode_d,
                   emitted, fetched, fin, ireads, linecommits, preads>>
    /\ CountSteps

(***************************************************************************)
(* LEDProgram (src/migen/spi_statemachine/spi_statemachine.py): a receiver *)
(* of SPI commands, a memory written in chunks and a state machine that    *)
(* shows the stored bits on a LED.  One step is one clock tick.  Where two *)
(* state machines assign the same register on a tick, the one added to the *)
(* module later (memory, receiver, ledfsm in this order) prevails.         *)
(***************************************************************************)
Full == write_adr = read_adr /\ written = 1
StartRise == spi_start = 1 /\ start_d = 0
DoneRise == spi_done = 1 /\ done_d = 0

\* the status byte: memory full in bit 0, error in bits 1-4, ledstate above
StatusFlat == (IF Full THEN 1 ELSE 0) + lederror + ledstate
Status == (IF Full THEN 1 ELSE 0) + 2 * lederror + 32 * ledstate

\* WRITE_L is refused
RefusesNever == FALSE
Refuses == Full
\* the byte in hand is the last of its chunk
ChunkDoneEarly(wb) == wb >= CHUNKSIZE - 2
ChunkDone(wb) == wb >= CHUNKSIZE - 1

\* the memory ports: a write when we is high, a registered read when re is
Ports ==
    /\ ledmem' = IF write_we = 1
                 THEN [ledmem EXCEPT ![write_adr] = write_dat_w]
                 ELSE ledmem
    /\ read_dat_r' = IF read_re = 1 THEN ledmem[read_adr] ELSE read_dat_r

\* TestSPIStateMachine.transaction over SPIMaster and SPISlave: the slave
\* raises start for one tick and loads the reply from miso on it, done is
\* low while the transfer runs, and mosi holds the byte when done rises.
\* The master follows a script of commands; after a WRITE_L that was
\* answered with memory full clear it sends the data bytes of a chunk
\* (data_byte = i % 256).  AWAIT in a script stands for the loop that waits
\* until LEDProgram reports an error.  Between two transfers the master
\* waits MinGap ticks and as many more as it likes, up to MaxSlack in all
AWAIT == 6
DataByte(i) == i % 256
Begin(b) ==
    /\ master' = "xfer" /\ mwait' = 0 /\ sent' = b
    /\ spi_start' = 1 /\ spi_done' = 0
    /\ UNCHANGED <<reply, spi_mosi, slack>>
Wait ==
    /\ slack < MaxSlack
    /\ slack' = slack + 1
    /\ UNCHANGED <<master, mwait, sent, reply, trans, todo, nsent,
                   spi_start, spi_done, spi_mosi>>
Master ==
    /\ script' = script
    /\ CASE master = "idle" /\ mwait < MinGap ->
                /\ mwait' = mwait + 1
                /\ UNCHANGED <<master, sent, reply, trans, todo, nsent,
                               spi_start, spi_done, spi_mosi, slack>>
         [] master = "idle" /\ mwait >= MinGap /\ todo > 0 ->
                \/ /\ Begin(DataByte(nsent))
                   /\ todo' = todo - 1 /\ nsent' = nsent + 1
                   /\ trans' = trans
                \/ Wait
         [] master = "idle" /\ mwait >= MinGap /\ todo <= 0 /\ trans >= Len(script) ->
                UNCHANGED <<master, mwait, sent, reply, trans, todo, nsent,
                            spi_start, spi_done, spi_mosi, slack>>
         [] master = "idle" /\ mwait >= MinGap /\ todo <= 0 /\ trans < Len(script)
                /\ script[trans + 1] = AWAIT ->
                /\ trans' = IF lederror # 0 THEN trans + 1 ELSE trans
                /\ UNCHANGED <<master, mwait, sent, reply, todo, nsent,
                               spi_start, spi_done, spi_mosi, slack>>
         [] master = "idle" /\ mwait >= MinGap /\ todo <= 0 /\ trans < Len(script)
                /\ script[trans + 1] # AWAIT ->
                \/ /\ Begin(script[trans + 1])
                   /\ todo' = IF script[trans + 1] = WRITE_L THEN -1 ELSE 0
                   /\ trans' = trans + 1 /\ nsent' = nsent
                \/ Wait
         [] OTHER ->
                /\ spi_start' = 0
                /\ reply' = IF spi_start = 1 THEN spi_miso ELSE reply
                /\ IF mwait >= TransferTicks
                   THEN /\ master' = "idle" /\ mwait' = 0
                        /\ spi_done' = 1 /\ spi_mosi' = sent
                        /\ todo' = IF todo = -1
                                   THEN (IF reply % 2 = 0 THEN CHUNKSIZE
                                         ELSE 0)
                                   ELSE todo
                   ELSE /\ mwait' = mwait + 1
                        /\ UNCHANGED <<master, spi_done, spi_mosi, todo>>
                /\ UNCHANGED <<sent, trans, nsent, slack>>

\* the LED state machine; wr is what the receiver and the memory FSM make
\* of written on this tick
LedFsm(wr) ==
    LET boundary == ledfsm = "ON" /\ counter = MAXPERIOD - 1
        starved == boundary /\ written = 0
        shows == boundary /\ written # 0
        lastbit == shows /\ ledreadbit = LEDMEMWIDTH - 1
        clears == lastbit /\ \/ read_adr + 1 = write_adr
                             \/ (read_adr + 1 = LEDMEMDEPTH /\ write_adr = 0)
    IN  /\ led' = CASE ledfsm = "OFF" -> 0
                    [] starved -> 0
                    [] shows -> dat_r_temp % 2
                    [] OTHER -> led
        /\ lederror' = CASE ledfsm = "OFF" -> (lederror \div 2) * 2
                         [] starved -> (lederror \div 2) * 2 + 1
                         [] shows -> (lederror \div 2) * 2
                         [] OTHER -> lederror
        /\ ledreadbit' = CASE ledfsm = "OFF" -> 0
                           [] shows -> Trunc(ledreadbit + 1, LEDMEMWIDTH)
                           [] OTHER -> ledreadbit
        /\ dat_r_temp' = CASE ledfsm = "READ" -> Trunc(read_dat_r, LEDMEMWIDTH)
                           [] shows -> dat_r_temp \div 2
                           [] OTHER -> dat_r_temp
        /\ counter' = CASE boundary -> 0
                        [] ledfsm \in {"ON", "READ"} ->
                              (counter + 1) % Pow2(COUNTERBITS)
                        [] OTHER -> counter
        /\ ledread' = CASE ledfsm = "READ" -> 1
                        [] starved \/ lastbit -> 0
                        [] OTHER -> ledread
        /\ ledfsm' = CASE ledfsm = "OFF" ->
                            IF ledstate = 1 THEN "ON" ELSE "OFF"
                       [] ledfsm = "ON" ->
                            IF ledread = 0 THEN "READ"
                            ELSE IF ledstate = 0 THEN "OFF" ELSE "ON"
                       [] OTHER -> "ON"
        /\ read_re' = CASE ledfsm = "READ" -> 1
                        [] ledfsm = "ON" /\ ledread = 0 -> 0
                        [] memory = "RESET" -> 1
                        [] OTHER -> read_re
        /\ read_adr' = CASE lastbit -> Trunc(read_adr + 1, LEDMEMDEPTH)
                         [] memory = "RESET" -> 0
                         [] OTHER -> read_adr
        /\ written' = IF clears THEN 0 ELSE wr

\* everything beside the receiver that runs on every tick
Beside(wr) ==
    /\ LedFsm(wr) /\ Ports /\ Master
    \* the edge detectors on done and start
    /\ done_d' = spi_done /\ start_d' = spi_start
    \* the memory FSM: RESET on the first tick, IDLE ever after
    /\ memory' = "IDLE"
    /\ UNCHANGED <<cfgvars, headvars, paramvars>>

(***************************************************************************)
(* LEDProgram: one action per state of the receiver.                       *)
(***************************************************************************)
ReceiverIdle ==
    /\ receiver = "IDLE"
    /\ spi_miso' = Status
    /\ receiver' = IF StartRise THEN "WAITFORDONE" ELSE "IDLE"
    /\ write_adr' = IF memory = "RESET" THEN 0 ELSE write_adr
    /\ UNCHANGED <<command, ledstate, write_dat_w, write_we, writebyte,
                   chunkbase, chunk>>
    /\ Beside(IF memory = "RESET" THEN 0 ELSE written)

ReceiverWaitForDone ==
    /\ receiver = "WAITFORDONE"
    /\ receiver' = IF DoneRise THEN "PROCESSINPUT" ELSE "WAITFORDONE"
    /\ UNCHANGED <<spi_miso, command, ledstate, write_adr, write_dat_w,
                   write_we, writebyte, chunkbase, chunk>>
    /\ Beside(written)

ReceiverProcessInput ==
    LET header == command = RECVCOMMAND
        data == ~header /\ command # READ_D
        accept == header /\ spi_mosi = WRITE_L /\ ~Refuses
        lastbyte == data /\ ChunkDone(writebyte)
    IN  /\ receiver = "PROCESSINPUT"
        /\ receiver' = IF data THEN "WRITE" ELSE "IDLE"
        /\ ledstate' = IF header /\ spi_mosi = STOP THEN 0
                       ELSE IF header /\ spi_mosi = START THEN 1
                       ELSE ledstate
        /\ command' = CASE header /\ spi_mosi = READ_D -> READ_D
                        [] accept -> WRITE_L
                        [] header /\ spi_mosi = WRITE_L -> RECVCOMMAND
                        [] header -> command
                        [] ~data \/ lastbyte -> RECVCOMMAND
                        [] OTHER -> command
        /\ spi_miso' = IF header /\ spi_mosi = READ_D THEN 0 ELSE spi_miso
        /\ write_dat_w' = IF data THEN spi_mosi ELSE write_dat_w
        /\ write_we' = IF data THEN 1 ELSE write_we
        /\ writebyte' = IF lastbyte THEN 0
                        ELSE IF data THEN Trunc(writebyte + 1, LEDMEMDEPTH)
                        ELSE writebyte
        /\ write_adr' = write_adr
        /\ chunkbase' = IF accept THEN write_adr ELSE chunkbase
        /\ chunk' = IF accept THEN <<>>
                    ELSE IF data THEN Append(chunk, spi_mosi)
                    ELSE chunk
        /\ Beside(IF data THEN 1 ELSE written)

ReceiverWrite ==
    /\ receiver = "WRITE"
    /\ write_adr' = Trunc(write_adr + 1, LEDMEMDEPTH)
    /\ write_we' = 0
    /\ receiver' = "IDLE"
    /\ UNCHANGED <<spi_miso, command, ledstate, write_dat_w, writebyte,
                   chunkbase, chunk>>
    /\ Beside(written)

\* LEDProgram and the SPI master after reset
InitLEDProgram ==
    /\ spi_start = 0 /\ spi_done = 1 /\ spi_mosi = 0 /\ spi_miso = 0
    /\ done_d = 0 /\ start_d = 0
    /\ memory = "RESET" /\ receiver = "IDLE" /\ ledfsm = "OFF"
    /\ ledstate = 0 /\ lederror = 0 /\ command = RECVCOMMAND /\ writebyte = 0
    /\ ledmem = [a \in 0 .. (LEDMEMDEPTH - 1) |-> 0]
    /\ write_adr = 0 /\ write_dat_w = 0 /\ write_we = 0
    /\ read_adr = 0 /\ read_re = 0 /\ read_dat_r = 0
    /\ written = 0 /\ ledreadbit = 0 /\ dat_r_temp = 0 /\ counter = 0
    /\ ledread = 0 /\ led = 0
    /\ master = "idle" /\ mwait = 0 /\ sent = 0 /\ reply = 0 /\ trans = 0
    /\ todo = 0 /\ nsent = 0 /\ slack = 0
    /\ chunkbase = 0 /\ chunk = <<>>

(***************************************************************************)
(* Initial states and specifications.                                      *)
(***************************************************************************)
\* the registers after reset; BaseTest.initialize_signals holds the
\* photodiode high
InitRegisters ==
    /\ synchronize = 0 /\ photodiode = 1 /\ expose_start = 0
    /\ error = 0 /\ synchronized = 0 /\ enable_prism = 0 /\ lasers = 0
    /\ read_en = 0 /\ read_commit = 0 /\ read_discard = 0
    /\ expose_finished = 0 /\ dir = 0
    /\ pc = "RESET" /\ move = 0 /\ stephalfperiod = 0 /\ facetcnt = 0
    /\ stablecntr = 0 /\ stablethresh = 0 /\ lasercnt = 0 /\ scanbit = 0
    /\ tickcounter = 0 /\ read_old = 0 /\ readbit = 0 /\ photodiode_d = 0
    /\ process_lines = 0 /\ expose_start_d = 0
    /\ diodecounter = 0
    /\ mem = [a \in 0 .. MEMDEPTH |-> 0] /\ rd = 0
    /\ cur_write = 0 /\ com_write = 0 /\ cur_read = 0 /\ com_read = 0
    /\ ppos = 1 /\ hpc = "write" /\ changes = 0
    /\ emitted = <<>> /\ fetched = <<>> /\ fin = 0 /\ ireads = 0 /\ linecommits = 0
    /\ preads = 0
    /\ step = 0 /\ stepcnt = 0 /\ pwm = 0 /\ pwmcnt = 0
    /\ steps = 0 /\ pwmticks = 0 /\ lowticks = 0 /\ dropped = "none"
    /\ spinticks = 0 /\ rejected = 0
    /\ photodiode_t = 0 /\ photodiodecnt = 0 /\ triggered = 0
    /\ lowseen = 0
    /\ commands = [i \in 1 .. 4 * motors |-> i]
    /\ trials = 0 /\ data_out = 1 /\ cmdidx = 1 /\ delivered = <<>>
    /\ sendpc = IF motors = 0 THEN "idle" ELSE "while"
    /\ retry = "none"

\* a Laserhead built for the test platform: params has returned
InitEngine ==
    /\ motors = 0 /\ iterations = 0
    /\ InitRegisters
    /\ InitLEDProgram /\ script = <<>>
    /\ laserticks = LASERTICKS /\ ticksinfacet = TICKSINFACET
    /\ raised = "returned"
    /\ spinupticks = SPINUPTICKS /\ stableticks = STABLETICKS

\* params(platform) on its own: Laserhead.__init__ calls it with the
\* laser_var of the platform
Params ==
    /\ raised = "none"
    /\ raised' = IF Raises(laserticks, scanbits, ticksinfacet)
                 THEN "raised" ELSE "returned"
    /\ UNCHANGED <<cfgvars, headvars, laserticks, ticksinfacet, spinupticks,
                   stableticks, ledvars>>

InitParams ==
    /\ motors = 0 /\ iterations = 0
    /\ InitRegisters
    /\ InitLEDProgram /\ script = <<>>
    /\ single_line = FALSE /\ single_facet = FALSE /\ probe = "none"
    /\ diode = "sim" /\ scen = "params" /\ prog = <<>>
    /\ laserticks \in 0 .. MaxLaserTicks
    /\ scanbits \in (-1) .. MaxScanBits
    /\ ticksinfacet \in 1 .. MaxFacetTicks
    /\ raised = "none"
    /\ spinupticks = SPINUPTICKS /\ stableticks = STABLETICKS

\* MultilineTest.test_scanlineringbuffer, and the same test of Loweredge
\* and Upperedge: a scanline of MEMWIDTH bits and one of a bit more
InitRing ==
    /\ InitEngine
    /\ single_line = FALSE /\ single_facet \in BOOLEAN
    /\ scanbits \in {MEMWIDTH, SCANBITS} /\ probe = "none"
    /\ diode = "sim" /\ scen = "ring"
    /\ prog \in {Program(l) : l \in RingLines}

\* SinglelineTest.test_single_line, in every mode
InitStream ==
    /\ InitEngine
    /\ single_line \in BOOLEAN /\ single_facet \in BOOLEAN
    /\ scanbits = SCANBITS /\ probe = "none"
    /\ diode = "sim" /\ scen = "stream"
    /\ prog \in {Program(l) : l \in StreamLines}

\* the DiodeSimulator with a host that acts at any time: an exposure of one
\* line with a further line left for a second exposure, and one in single
\* line, single facet mode that starts with a word that is no instruction
InitFree ==
    /\ InitEngine
    /\ scanbits = SCANBITS /\ probe = "none"
    /\ diode = "sim" /\ scen = "free"
    /\ \/ /\ single_facet = FALSE /\ single_line = FALSE
          /\ prog = Program(<<ScanLine(1, 1), LastLine, ScanLine(0, 2)>>)
       \/ /\ single_facet = TRUE /\ single_line = TRUE
          /\ prog = Program(<<BadLine, ScanLine(1, 2), LastLine>>)

\* the Laserhead alone: the photodiode is an input, driven at will under
\* the ring buffer test or held high under a host that acts at any time
InitHead ==
    /\ InitEngine
    /\ single_line = FALSE /\ single_facet = FALSE
    /\ scanbits = SCANBITS /\ probe = "latency"
    /\ prog = Program(<<ScanLine(1, 1), LastLine>>)
    /\ \/ diode = "free" /\ scen = "ring"
       \/ diode = "dark" /\ scen = "free"

\* MultilineTest.test_movement: the step output is watched
InitMove ==
    /\ InitEngine
    /\ single_line = FALSE /\ single_facet \in BOOLEAN
    /\ scanbits = SCANBITS /\ probe = "step"
    /\ diode = "sim" /\ scen = "move"
    /\ prog \in {Program(MoveLines(n, d1, d2)) :
                    n \in 1 .. MaxLines, d1 \in {0, 1}, d2 \in {0, 1}}

\* LaserheadTest.test_pwmpulse, the pwm output watched on the Laserhead
\* alone with the photodiode held high, and under the DiodeSimulator while
\* a line, a word that is no instruction and a further line arrive
InitPwm ==
    /\ InitEngine
    /\ single_line = FALSE /\ single_facet = FALSE
    /\ scanbits = SCANBITS /\ probe = "pwm"
    /\ \/ /\ diode = "dark" /\ scen = "free"
          /\ prog = Program(<<ScanLine(1, 1), LastLine>>)
       \/ /\ diode = "sim" /\ scen = "stream"
          /\ prog = Program(<<ScanLine(1, 2), BadLine, ScanLine(0, 1)>>)

\* MultilineTest.test_stopline, with the empty line alone or after a
\* scanline
InitStop ==
    /\ InitEngine
    /\ single_line = FALSE /\ single_facet \in BOOLEAN
    /\ scanbits = SCANBITS /\ probe = "none"
    /\ diode = "sim" /\ scen = "stop"
    /\ prog \in {Program(<<LastLine>>), Program(<<ScanLine(1, 2), LastLine>>)}

Next ==
    \/ TickReset
    \/ TickStop
    \/ TickSpinup
    \/ TickWaitStable
    \/ TickReadInstruction
    \/ TickWaitForDataRun
    \/ TickDataRun
    \/ TickWaitEnd

SpecRing == InitRing /\ [][Next]_vars
SpecStream == InitStream /\ [][Next]_vars
SpecFree == InitFree /\ [][Next]_vars
SpecMove == InitMove /\ [][Next]_vars
SpecPwm == InitPwm /\ [][Next]_vars
SpecStop == InitStop /\ [][Next]_vars
NextParams == Params
SpecParams == InitParams /\ [][NextParams]_vars
SpecHead == InitHead /\ [][Next]_vars

\* TestSPIStateMachine: LEDProgram under an SPI master
LedScripts ==
    { <<STATUS, START, STATUS, STOP, STATUS>>,
      <<WRITE_L, WRITE_L, WRITE_L, STATUS>>,
      <<STATUS, WRITE_L, WRITE_L, WRITE_L, START, STATUS, AWAIT, STATUS>>,
      <<WRITE_L, WRITE_L, START, WRITE_L, WRITE_L, STOP, STATUS>>,
      <<START, WRITE_L, STATUS, WRITE_L, WRITE_L, STATUS>> }
InitLed ==
    /\ motors = 0 /\ iterations = 0
    /\ InitRegisters
    /\ laserticks = LASERTICKS /\ ticksinfacet = TICKSINFACET
    /\ raised = "returned"
    /\ spinupticks = SPINUPTICKS /\ stableticks = STABLETICKS
    /\ InitLEDProgram /\ script \in LedScripts
    /\ single_line = FALSE /\ single_facet = FALSE
    /\ scanbits = SCANBITS /\ probe = "none"
    /\ diode = "sim" /\ scen = "led" /\ prog = <<>>

NextLed ==
    \/ ReceiverIdle
    \/ ReceiverWaitForDone
    \/ ReceiverProcessInput
    \/ ReceiverWrite

SpecLed == InitLed /\ [][NextLed]_vars

\* a Laserhead on the test platform, and on platforms whose laser_var gives
\* other spin-up and stable times, under test_scanlineringbuffer
InitSpin ==
    /\ motors = 0 /\ iterations = 0
    /\ InitRegisters
    /\ InitLEDProgram /\ script = <<>>
    /\ laserticks = LASERTICKS /\ ticksinfacet = TICKSINFACET
    /\ raised = "returned"
    /\ single_line = FALSE /\ single_facet = FALSE
    /\ scanbits = SCANBITS /\ probe = "spin"
    /\ diode = "sim" /\ scen = "ring"
    /\ prog = Program(<<ScanLine(1, 1), LastLine>>)
    /\ \/ spinupticks = SPINUPTICKS /\ stableticks = STABLETICKS
       \/ spinupticks \in 1 .. MaxSpinup /\ stableticks \in 1 .. MaxStable
SpecSpin == InitSpin /\ [][Next]_vars

\* LaserheadTest.test_sync with the photodiode driven at will
InitSync ==
    /\ InitEngine
    /\ single_line = FALSE /\ single_facet = FALSE
    /\ scanbits = SCANBITS /\ probe = "sync"
    /\ prog = Program(<<ScanLine(1, 1), LastLine>>)
    /\ diode = "free" /\ scen = "ring"
SpecSync == InitSync /\ [][Next]_vars

\* scanlineringbuffer with one scanline, closed by the LastScanline word
\* of write_line or by one written to write_data with the direction bit set
InitDecode ==
    /\ InitEngine
    /\ single_line = FALSE /\ single_facet = FALSE
    /\ scanbits = SCANBITS /\ probe = "none"
    /\ diode = "sim" /\ scen = "ring"
    /\ prog \in {Program(<<ScanLine(d, 1),
                            [kind |-> "last", direction |-> u, pattern |-> 0]>>)
                     : d \in {0, 1}, u \in {0, 1}}
SpecDecode == InitDecode /\ [][Next]_vars

\* scanlineringbuffer on test platforms whose SCANBITS params accepts for
\* the facet of TICKSINFACET ticks
InitFit ==
    /\ InitEngine
    /\ single_line = FALSE /\ single_facet = FALSE
    /\ scanbits \in {s \in SCANBITS .. SCANBITS + MaxMoreBits :
                         ~Raises(LASERTICKS, s, TICKSINFACET)}
    /\ probe = "none" /\ diode = "sim" /\ scen = "ring"
    /\ prog \in {Program(l) : l \in RingLines}
SpecFit == InitFit /\ [][Next]_vars

\* test_stopline with the photodiode_triggered block watched: the
\* photodiode is quiet before the engine spins up and after the host has
\* taken synchronize away
InitWindow ==
    /\ InitEngine
    /\ single_line = FALSE /\ single_facet = FALSE
    /\ scanbits = SCANBITS /\ probe = "window"
    /\ diode = "sim" /\ scen = "stop"
    /\ prog = Program(<<ScanLine(1, 2), LastLine>>)
SpecWindow == InitWindow /\ [][Next]_vars

(***************************************************************************)
(* Host.send_move (src/src/FPGAG/controller.py).  One step is one pass     *)
(* through the while loop or the for loop, that is at most one             *)
(* send_command.  The commands of move_commands, four for each motor, are  *)
(* numbered 1 .. 4 * motors.  The device is the other end of               *)
(* spi_exchange_data: on every exchange its memory is full or not, as it   *)
(* likes; it takes the command if it is not, and its reply says which.     *)
(***************************************************************************)
SendMove ==
    /\ \/ \* while self.memfull(data_out): the loop is left
          /\ sendpc = "while" /\ data_out = 0
          /\ sendpc' = "for"
          /\ UNCHANGED <<commands, trials, data_out, cmdidx, delivered>>
       \/ \* commands.pop(0) with no command left
          /\ sendpc = "while" /\ data_out = 1 /\ commands = <<>>
          /\ sendpc' = "IndexError"
          /\ UNCHANGED <<commands, trials, data_out, cmdidx, delivered>>
       \/ \* data_out = send_command(commands.pop(0)); trials += 1
          /\ sendpc = "while" /\ data_out = 1 /\ commands # <<>>
          /\ \E memfull \in {0, 1} :
                /\ data_out' = memfull
                /\ delivered' = IF memfull = 0
                                 THEN Append(delivered, Head(commands))
                                 ELSE delivered
          /\ commands' = Tail(commands)
          /\ trials' = trials + 1
          /\ sendpc' = IF trials + 1 > iterations
                       THEN "TooManyTrials" ELSE "while"
          /\ cmdidx' = cmdidx
       \/ \* for command in commands: send_command(command)
          /\ sendpc = "for" /\ cmdidx <= Len(commands)
          /\ \E memfull \in {0, 1} :
                delivered' = IF memfull = 0
                             THEN Append(delivered, commands[cmdidx])
                             ELSE delivered
          /\ cmdidx' = cmdidx + 1
          /\ UNCHANGED <<commands, trials, data_out, sendpc>>
       \/ \* the for loop is through
          /\ sendpc = "for" /\ cmdidx > Len(commands)
          /\ sendpc' = "returned"
          /\ UNCHANGED <<commands, trials, data_out, cmdidx, delivered>>
    /\ UNCHANGED <<cfgvars, inputs, outputs, regs, diodecounter, fifovars,
                   hostvars, obsvars, genvars, photodiode_t, photodiodecnt,
                   triggered, lowseen, motors, iterations, paramvars,
                   ledvars>>

\* a call of send_move for a board of one or two motors
InitSendMove ==
    /\ motors \in 1 .. MaxMotors /\ iterations \in 1 .. MaxIterations
    /\ InitRegisters
    /\ InitLEDProgram /\ script = <<>>
    /\ laserticks = LASERTICKS /\ ticksinfacet = TICKSINFACET
    /\ raised = "returned"
    /\ spinupticks = SPINUPTICKS /\ stableticks = STABLETICKS
    /\ single_line = FALSE /\ single_facet = FALSE
    /\ scanbits = SCANBITS /\ probe = "none"
    /\ diode = "sim" /\ scen = "host" /\ prog = <<>>
SpecSendMove == InitSendMove /\ [][SendMove]_vars

\* the clock never stops
SpecRingFair == InitRing /\ [][Next]_vars /\ WF_vars(Next)

(***************************************************************************)
(* Properties.                                                             *)
(***************************************************************************)
\* scanlines in the host's program: every line ends with a commit, and the
\* ring buffer test ends with the empty line
RECURSIVE CountCommits(_)
CountCommits(items) ==
    IF items = <<>> THEN 0
    ELSE (IF Head(items) = COMMIT THEN 1 ELSE 0) + CountCommits(Tail(items))
RingScanlines == CountCommits(prog) - 1

\* C1: ring buffer test, not in single line mode: the engine commits the N
\* scanlines written, no more and no fewer, before expose_finished becomes
\* true; error is never set; and in the end expose_finished is true,
\* movement is disarmed, and the transport is empty with every word
\* committed.
C1_RingBuffer ==
    /\ [](error = 0 /\ linecommits <= RingScanlines)
    /\ [](expose_finished = 1 => linecommits = RingScanlines /\ move = 0)
    /\ <>[](/\ expose_finished = 1
            /\ move = 0
            /\ linecommits = RingScanlines
            /\ empty
            /\ com_read = com_write)

\* C1 witness: the exposure of the longest program has finished
C1_Witness ==
    /\ scen = "ring" /\ diode = "sim"
    /\ RingScanlines = MaxLines
    /\ expose_finished = 1
    /\ linecommits = MaxLines
    /\ com_read = com_write

\* a step of WAIT_STABLE that judges an edge: the watchdog is quiet and
\* the photodiode is low on this tick and on the one before
JudgesEdge ==
    /\ pc = "WAIT_STABLE"
    /\ stablecntr < stablethresh
    /\ photodiode = 0 /\ photodiode_d = 0

\* C2 as claimed: an edge is accepted when the tick counter lies in the
\* inclusive window [T - 1 - J, T - 1 + J], and rejected outside it.
C2_InclusiveWindow ==
    [][JudgesEdge =>
        (synchronized' = 1 <=>
            /\ tickcounter >= TICKSINFACET - 1 - JITTERTICKS
            /\ tickcounter <= TICKSINFACET - 1 + JITTERTICKS)]_vars

\* C2 amended: an edge is accepted exactly when the tick counter lies
\* strictly inside the window, T - J .. T - 2 + J: an edge at either bound
\* T - 1 - J or T - 1 + J is rejected (synchronized cleared), an edge one
\* tick inside either bound is accepted (synchronized set).
C2_ExclusiveWindow ==
    [][JudgesEdge =>
        /\ synchronized' =
              (IF tickcounter \in (TICKSINFACET - JITTERTICKS)
                                    .. (TICKSINFACET - 2 + JITTERTICKS)
               THEN 1 ELSE 0)
        /\ tickcounter' = 0
        /\ pc' \in {"WAIT_END", "READ_INSTRUCTION"}]_vars

\* C2 witness: lock is held and an edge arrives exactly at the upper bound
C2_Witness ==
    /\ JudgesEdge
    /\ synchronized = 1
    /\ tickcounter = TICKSINFACET - 1 + JITTERTICKS

\* C3: in WAIT_STABLE, once stable_counter has reached stable_threshold the
\* next tick sets error and goes to STOP, whatever the photodiode does; the
\* engine leaves STOP for SPINUP only with error clear, leaves SPINUP only
\* for WAIT_STABLE, and arrives in STOP from WAIT_STABLE only with error
\* set.
C3_Watchdog ==
    [][/\ (pc = "WAIT_STABLE" /\ stablecntr >= stablethresh)
            => (error' = 1 /\ pc' = "STOP")
       /\ (pc = "STOP" /\ pc' = "SPINUP") => error' = 0
       /\ pc = "SPINUP" => pc' \in {"SPINUP", "WAIT_STABLE"}
       /\ (pc = "WAIT_STABLE" /\ pc' = "STOP")
            => (error' = 1 /\ stablecntr >= stablethresh)]_vars

\* C3 witness: the watchdog has fired on a wait in which the photodiode
\* never triggered (the laser is still on, the first threshold was used)
C3_Witness ==
    /\ pc = "STOP" /\ error = 1
    /\ diode = "dark"
    /\ lasers = 3
    /\ synchronized = 0
    /\ stablecntr = STABLETICKS - 1

\* C4 as claimed: in STOP with error set, once a tick has seen synchronize
\* low and a later tick has seen it high again with the photodiode
\* inactive, error is clear and the engine is in SPINUP.
C4_Recovery ==
    retry = "high" => (error = 0 /\ pc = "SPINUP")

\* C5: in STOP with synchronize asserted and error clear, a low photodiode
\* sets error, keeps the engine in STOP, the motor driver disabled
\* (enable_prism high) and the laser off; a high photodiode leaves error
\* clear, enables the motor driver and leads to SPINUP.
C5_PreSpinFault ==
    [][(pc = "STOP" /\ synchronize = 1 /\ error = 0) =>
        IF photodiode = 0
        THEN /\ error' = 1 /\ pc' = "STOP"
             /\ enable_prism' = 1 /\ lasers' = 0
        ELSE /\ error' = 0 /\ pc' = "SPINUP"
             /\ enable_prism' = 0 /\ lasers' = 0]_vars

\* C5 witness: the pre-spin fault has been taken before the prism ever
\* spun (the tick counter and the latched photodiode are untouched)
C5_Witness ==
    /\ pc = "STOP" /\ error = 1
    /\ synchronize = 1
    /\ enable_prism = 1 /\ lasers = 0
    /\ tickcounter = 0 /\ ireads = 0 /\ synchronized = 0
    /\ stablethresh = STABLETICKS - 1

\* C6 as claimed: past the tick that decodes an invalid word (read_en is
\* low again) the engine stays in READ_INSTRUCTION with error set, and
\* neither commits nor discards.
C6_StaysAfterInvalid ==
    [][(pc = "READ_INSTRUCTION" /\ read_en = 0) =>
        /\ pc' = "READ_INSTRUCTION"
        /\ error' = 1
        /\ read_commit' = read_commit
        /\ read_discard' = read_discard]_vars

\* a step of WAIT_STABLE that accepts an edge
AcceptsEdge ==
    /\ pc = "WAIT_STABLE"
    /\ pc' \in {"WAIT_END", "READ_INSTRUCTION"}
    /\ synchronized' = 1

\* C7: in single facet mode an accepted edge requests a read only at facet
\* index 0 (and then only if the transport holds a line and lines are being
\* processed); at every other facet index it issues no enable_read, disarms
\* movement and goes to WAIT_END; the facet index advances by one modulo
\* FACETS on every accepted edge, so that every line is exposed at the same
\* facet index.
C7_SingleFacet ==
    /\ [][(single_facet /\ AcceptsEdge) =>
            /\ facetcnt' = (facetcnt + 1) % FACETS
            /\ IF facetcnt = 0
               THEN (pc' = "READ_INSTRUCTION" /\ read_en' = 1)
                        <=> (~empty /\ process_lines = 1)
               ELSE /\ read_en' = 0 /\ move' = 0 /\ pc' = "WAIT_END"]_vars
    /\ [](single_facet /\ pc \in {"READ_INSTRUCTION", "WAIT_FOR_DATA_RUN",
                                  "DATA_RUN"}
            => facetcnt = 1 % FACETS)

\* C7 witness: in single facet mode a second line is being exposed
C7_Witness ==
    /\ single_facet
    /\ pc = "DATA_RUN"
    /\ linecommits >= 1
    /\ facetcnt = 1 % FACETS

\* the bits of a scanline with pattern p, in the order they are exposed
LineBits(p) == [k \in 1 .. BITSINSCANLINE |-> PatternBit(p, k - 1)]

\* the step of DATA_RUN that finalizes the line
Finalizes == pc = "DATA_RUN" /\ pc' = "WAIT_END"

\* C8 as claimed: in single line mode, with no error raised, every full
\* emission puts the bit pattern of a written line on the laser; it is
\* finalized by read_discard alone while the transport holds no further
\* line and by read_commit once a further line is written; and a
\* LastScanline that is read sets expose_finished and leaves error false.
C8_SingleLine ==
    [][(single_line /\ error = 0) =>
        /\ Finalizes =>
              /\ emitted \in {LineBits(p) : p \in PATTERNS}
              /\ IF empty
                 THEN read_discard' = 1 /\ read_commit' = 0
                 ELSE read_commit' = 1 /\ read_discard' = 0
        /\ (pc = "READ_INSTRUCTION" /\ pc' = "WAIT_END")
              => (expose_finished' = 1 /\ error' = 0)]_vars

\* a step that raises read_en
IssuesRead == read_en = 0 /\ read_en' = 1

\* C9 as claimed: between two consecutive enable_read pulses there is
\* exactly one commit or discard.
C9_OnePerRead ==
    [][IssuesRead => (ireads = 0 \/ fin = 1)]_vars

\* C9 amended: between two consecutive instruction reads (the enable_read of
\* an accepted edge) the engine finalizes exactly once, raising read_commit
\* or read_discard; the enable_read pulses for the payload words of a line
\* are issued inside that transaction, with no commit or discard since the
\* read before.
C9_OnePerLine ==
    [][IssuesRead =>
        IF pc = "WAIT_STABLE" THEN (ireads = 0 \/ fin = 1)
        ELSE (pc \in {"WAIT_FOR_DATA_RUN", "DATA_RUN"} /\ fin = 0)]_vars

\* C9 witness: an instruction read is about to follow a finalized line
C9_Witness ==
    /\ pc = "WAIT_STABLE"
    /\ ireads >= 2 /\ fin = 1
    /\ photodiode = 0 /\ photodiode_d = 0
    /\ ~empty /\ process_lines = 1

\* C10 as claimed: read_commit and read_discard are one-tick pulses: a
\* signal that is high is low again on the next tick.
C10_OneTickPulses ==
    [][/\ read_commit = 1 => read_commit' = 0
       /\ read_discard = 1 => read_discard' = 0]_vars

\* every script a host of the model writes, and the one behind prog
Scripts ==
    RingLines \cup StreamLines
        \cup { <<ScanLine(1, 1), LastLine, ScanLine(0, 2)>>,
               <<BadLine, ScanLine(1, 2), LastLine>>,
               <<ScanLine(1, 1), LastLine>> }
Written == CHOOSE l \in Scripts : Program(l) = prog
\* the scanlines among them, in write order
IsScan(line) == line.kind = "scan"
WrittenScans == SelectSeq(Written, IsScan)

\* C11: not in single line mode and with no error raised, every DATA_RUN
\* is finalized by read_commit, never by read_discard, and the k-th
\* DATA_RUN has put on laser channel 0 the bits of the k-th scanline
\* written, with that line's direction: lines come out in write order,
\* none skipped and none twice.
C11_InOrder ==
    [][(~single_line /\ error = 0 /\ Finalizes) =>
        /\ read_commit' = 1 /\ read_discard' = 0
        /\ linecommits < Len(WrittenScans)
        /\ emitted = LineBits(WrittenScans[linecommits + 1].pattern)
        /\ dir = WrittenScans[linecommits + 1].direction]_vars

\* C11 witness: the second line of a script written while the engine runs
\* has been exposed, and it differs from the first
C11_Witness ==
    /\ ~single_line /\ scen = "stream" /\ error = 0
    /\ pc = "WAIT_END" /\ linecommits = 2
    /\ emitted = LineBits(WrittenScans[2].pattern)
    /\ WrittenScans[1].pattern # WrittenScans[2].pattern

\* the tick counter on the first tick of bit 0: the edge, the instruction
\* read and the blanking margin come first
BITZEROTICK == STARTTICKS + 2

\* C12: in DATA_RUN, on the first tick of bit k the bit counter is k + 1 and
\* the countdown LASERTICKS - 1; the bit stays on laser channel 0 while the
\* countdown runs to 0, LASERTICKS ticks in all; bit k is bit k % MEMWIDTH
\* of the word taken from the transport as number k \div MEMWIDTH of the
\* line, least significant bit first; and, no error raised, bit k starts
\* k * LASERTICKS ticks after bit 0, the words being the payload words of
\* the line in the order written unless the line is re-read.
C12_BitModulation ==
    (pc = "DATA_RUN" /\ scanbit >= 1) =>
        /\ Len(emitted) = scanbit
        /\ lasercnt \in 0 .. (LASERTICKS - 1)
        /\ lasers % 2 = emitted[scanbit]
        /\ Len(fetched) = ((scanbit - 1) \div MEMWIDTH) + 1
        /\ \A k \in 0 .. (scanbit - 1) :
              emitted[k + 1] = Bit(fetched[(k \div MEMWIDTH) + 1], k % MEMWIDTH)
        /\ error = 0 =>
              tickcounter = BITZEROTICK + (scanbit - 1) * LASERTICKS
                                + (LASERTICKS - 1 - lasercnt)
        /\ (error = 0 /\ read_discard = 0) =>
              \A j \in 1 .. Len(fetched) :
                  fetched[j] = PayloadWord(WrittenScans[linecommits + 1].pattern,
                                           j - 1)

\* C12 witness: the first tick of the first bit of the second payload word
C12_Witness ==
    /\ pc = "DATA_RUN" /\ error = 0
    /\ scanbit = MEMWIDTH + 1
    /\ lasercnt = LASERTICKS - 1
    /\ Len(fetched) = 2
    /\ emitted = LineBits(2)


\* C13: within one scanline the engine issues exactly
\* ceil(BITSINSCANLINE / MEMWIDTH) enable_read pulses for payload words,
\* each one tick wide: one for a line of MEMWIDTH bits, two for a line of
\* MEMWIDTH + 1 bits.  When the line is finalized the words taken are as
\* many, and without SINGLE_LINE the read pointer stands on the word after
\* the line's instruction word and payload words, so the next line's
\* instruction word has not been consumed.
C13_PayloadFetch ==
    [][/\ (pc = "DATA_RUN" /\ read_en = 1) => read_en' = 0
       /\ pc = "DATA_RUN" => preads <= PAYLOADWORDS
       /\ Finalizes =>
              /\ preads = PAYLOADWORDS
              /\ Len(fetched) = PAYLOADWORDS
              /\ (~single_line /\ error = 0) =>
                     cur_read = (com_read + 1 + PAYLOADWORDS) % (MEMDEPTH + 1)]_vars
\* C13 witness: a line of MEMWIDTH bits finalized after a single payload read
C13_Witness ==
    /\ pc = "WAIT_END" /\ error = 0 /\ scanbits = MEMWIDTH
    /\ preads = 1 /\ Len(fetched) = 1 /\ linecommits = 2
    /\ emitted = LineBits(2)

\* test_movement: scanlines in one exposure, the direction the host gave
\* the exposure that count_steps has just followed, and count_steps is over
STEPSPERLINE == 1
MoveLinesWritten == (Len(prog) \div 2 - 2) \div (PAYLOADWORDS + 2)
MoveDirection == Bit(prog[ppos - Len(prog) \div 2], OPCODEBITS)
Counted == scen = "move" /\ hpc = "count" /\ expose_finished = 1
SecondExposure == ppos > Len(prog)

\* C14: over an exposure of M scanlines with direction d and half period
\* round(stepsperline * TICKSINFACET / 2), closed by a LastScanline, the
\* falling edges of step between expose_start and expose_finished number
\* stepsperline * M, counted up with dir = 1 and down with dir = 0; and
\* so again over a second exposure that follows the first.
C14_StepCount ==
    Counted =>
        steps = STEPSPERLINE * MoveLinesWritten
                    * (IF MoveDirection = 1 THEN 1 ELSE -1)

\* the step generator while movement is armed: the counter goes up by one
\* on every tick below the half period, and at the half period the step
\* output toggles and the counter returns to 0
ArmedSteps ==
    move = 1 =>
        IF stepcnt < stephalfperiod
        THEN stepcnt' = stepcnt + 1 /\ step' = step
        ELSE stepcnt' = 0 /\ step' = 1 - step

C16_PwmPeriod ==
    [][probe = "pwm" =>
          /\ pwmticks <= POLYPERIOD
          /\ pwm' # pwm => (pwmticks = POLYPERIOD \/ (pwmticks = 0 /\ pwm = 0))
          /\ (pwm' = pwm /\ pwmticks > 0) => pwmticks < POLYPERIOD]_vars
\* C16 witness: a full high phase ends while the engine sits in STOP with
\* error set and synchronize low
C16_Witness ==
    /\ probe = "pwm" /\ pc = "STOP" /\ error = 1 /\ synchronize = 0
    /\ pwm = 1 /\ pwmticks = POLYPERIOD /\ pwmcnt = 0

C18_NoMidLineAbort ==
    [][/\ pc \in {"SPINUP", "READ_INSTRUCTION", "WAIT_FOR_DATA_RUN", "DATA_RUN"}
            => pc' # "STOP"
       /\ (pc = "WAIT_STABLE" /\ pc' = "STOP")
            => (error' = 1 /\ stablecntr >= stablethresh)
       /\ pc = "WAIT_FOR_DATA_RUN" => pc' \in {"WAIT_FOR_DATA_RUN", "DATA_RUN"}
       /\ pc = "DATA_RUN" => pc' \in {"DATA_RUN", "WAIT_END"}
       /\ Finalizes => /\ Len(emitted) = BITSINSCANLINE
                       /\ (read_commit' = 1 \/ read_discard' = 1)
       /\ (dropped = "SPINUP" /\ prog[1] = LASTSCANLINE /\ pc = "STOP")
            => expose_finished = 1]_vars

\* what a tick in STOP leaves behind, the tick counter apart
StopResets ==
    /\ facetcnt' = 0 /\ stablecntr' = 0 /\ synchronized' = 0 /\ lasers' = 0
    /\ pc' # "SPINUP" => enable_prism' = 1

C20_Validation ==
    raised # "none" =>
        ((raised = "raised") <=>
            (laserticks <= 2 \/ scanbits <= 0
                \/ (STARTTICKS + laserticks * scanbits)
                       + (Jitter(laserticks) + 1) > ticksinfacet))

\* C21: every rising edge of expose_start sets process_lines and clears
\* expose_finished at the next tick, in every state of the engine, the tick
\* that decodes a LastScanline included; and expose_finished, once set,
\* stays set until the next rising edge of expose_start.
C21_ExposeStart ==
    [][/\ Rising => (process_lines' = 1 /\ expose_finished' = 0)
       /\ (expose_finished = 1 /\ ~Rising) => expose_finished' = 1]_vars

\* the receiver processes the command b received in command mode
Processes(b) ==
    receiver = "PROCESSINPUT" /\ command = RECVCOMMAND /\ spi_mosi = b

\* C22: a WRITE_L received while the memory is full (write address = read
\* address and written set) is refused: the receiver stays in command mode,
\* no memory cell is modified and the reply of the transfer has bit 0 set;
\* a WRITE_L received while the memory is not full is accepted (the
\* receiver goes to data mode) and its reply has bit 0 clear.
C22_MemoryFull ==
    [][Processes(WRITE_L) =>
        IF Full
        THEN /\ command' = RECVCOMMAND /\ receiver' = "IDLE"
             /\ ledmem' = ledmem /\ write_we' = 0 /\ write_adr' = write_adr
             /\ reply % 2 = 1
        ELSE /\ command' = WRITE_L
             /\ reply % 2 = 0]_vars

\* C23: after an accepted WRITE_L the next CHUNKSIZE bytes received are
\* stored unchanged at consecutive addresses in the order they arrive, the
\* address wrapping at the memory depth, and then the receiver is back in
\* command mode; a byte received in command mode is never stored; the
\* write address advances by exactly one per stored byte, and no cell
\* changes but by such a store.
C23_ChunkedWrite ==
    /\ [][/\ (receiver = "PROCESSINPUT" /\ command = WRITE_L) =>
                /\ receiver' = "WRITE"
                /\ write_dat_w' = spi_mosi /\ write_we' = 1
                /\ chunk' = Append(chunk, spi_mosi)
                /\ command' = IF Len(chunk') = CHUNKSIZE THEN RECVCOMMAND
                              ELSE WRITE_L
          /\ (receiver = "PROCESSINPUT" /\ command = RECVCOMMAND) =>
                (receiver' = "IDLE" /\ write_we' = 0)
          /\ receiver = "WRITE" =>
                /\ ledmem' = [ledmem EXCEPT ![write_adr] = write_dat_w]
                /\ write_adr' = (write_adr + 1) % LEDMEMDEPTH
          /\ receiver # "WRITE" =>
                (ledmem' = ledmem /\ write_adr' = write_adr)]_vars
    /\ [](/\ Len(chunk) <= CHUNKSIZE
          /\ receiver = "IDLE" =>
                /\ command = WRITE_L => Len(chunk) < CHUNKSIZE
                /\ (command = RECVCOMMAND /\ chunk # <<>>) =>
                      Len(chunk) = CHUNKSIZE
                /\ \A i \in 1 .. Len(chunk) :
                      ledmem[(chunkbase + i - 1) % LEDMEMDEPTH] = chunk[i])
\* C23 witness: a third chunk has been stored from address 0 on, after the
\* write address had wrapped, while the LED machine reads
C23_Witness ==
    /\ receiver = "IDLE" /\ command = RECVCOMMAND
    /\ Len(chunk) = CHUNKSIZE /\ chunkbase = 0 /\ write_adr = CHUNKSIZE
    /\ ledmem[CHUNKSIZE - 1] = DataByte(3 * CHUNKSIZE - 1)
    /\ ledstate = 1

\* C24: START sets ledstate to 1 and STOP sets it to 0; while the LED
\* machine is ON and no unread data exists (written = 0) the read error bit
\* (bit 0 of error) is set at the next end of a period, which comes within
\* MAXPERIOD ticks, and the LED is off; a tick in OFF clears the error bit;
\* the status the receiver puts into miso, which the next transfer
\* replies, has memory full in bit 0, error in bits 1-4 and ledstate in
\* bits 5-7.
C24_ReadErrorStatus ==
    /\ [][/\ Processes(START) => ledstate' = 1
          /\ Processes(STOP) => ledstate' = 0
          /\ (ledfsm = "ON" /\ counter = MAXPERIOD - 1 /\ written = 0) =>
                (lederror' % 2 = 1 /\ led' = 0)
          /\ ledfsm = "OFF" => (lederror' % 2 = 0 /\ led' = 0)
          /\ receiver = "IDLE" =>
                /\ spi_miso' % 2 = (IF Full THEN 1 ELSE 0)
                /\ (spi_miso' \div 2) % 16 = lederror
                /\ spi_miso' \div 32 = ledstate
          /\ spi_start = 1 => reply' = spi_miso]_vars
    /\ [](/\ counter < MAXPERIOD
          /\ lederror % 2 = 1 => led = 0
          /\ reply \in {0, 1, 2, 32, 33, 34})
\* C24 witness: the master has been told 0b100010, LED machine on with a
\* read error, after START with nothing written, and the LED is off
C24_Witness ==
    /\ reply = 34 /\ sent = STATUS /\ master = "idle"
    /\ ledstate = 1 /\ lederror = 1 /\ written = 0 /\ led = 0
    /\ nsent = 0 /\ ledfsm = "ON"


\* C25: SPINUP ends after a number of ticks set by SPINUPTICKS whatever the
\* platform's spin-up and stable times are: the engine is never in SPINUP
\* for more than SPINUPTICKS + 1 ticks in a row, the laser is off all the
\* while, and the tick that leaves SPINUP for WAIT_STABLE turns both laser
\* channels on and returns stablecntr to 0
C25_SpinupTerminates ==
    /\ [](pc = "SPINUP" => lasers = 0 /\ spinticks <= spinupticks + 1)
    /\ [][(pc = "SPINUP" /\ pc' = "WAIT_STABLE")
              => (lasers' = 3 /\ stablecntr' = 0)]_vars


\* C26: WAIT_STABLE, its watchdog not yet due, registers an edge (and so
\* leaves for WAIT_END or READ_INSTRUCTION) on a tick exactly when the
\* photodiode is low and the delayed copy is high; and the copy is the
\* sample of the tick before also on the first tick after WAIT_STABLE is
\* entered again, so a photodiode held low gives one edge and a single low
\* sample is never judged against a stale one
C26_EdgeDetection ==
    /\ [][(pc = "WAIT_STABLE" /\ ~Watchdog(stablecntr, stablethresh))
              => ((pc' # "WAIT_STABLE")
                     <=> (photodiode = 0 /\ photodiode_d = 1))]_vars
    /\ [][(pc # "WAIT_STABLE" /\ pc' = "WAIT_STABLE")
              => photodiode_d' = photodiode]_vars


\* C27: an edge that WAIT_STABLE registers outside the acceptance window
\* clears synchronized, disarms movement, resets tickcounter, issues no
\* read, leaves facetcnt and error alone and sends the engine to WAIT_END;
\* from there the engine, synchronize held, returns to WAIT_STABLE without
\* a read or an error; and the edge registered TICKSINFACET ticks after a
\* rejected one is accepted and sets synchronized
C27_LossOfSync ==
    /\ [][(pc = "WAIT_STABLE" /\ stablecntr < stablethresh
              /\ photodiode = 0 /\ photodiode_d = 0
              /\ (tickcounter <= TICKSINFACET - 1 - JITTERTICKS
                      \/ tickcounter >= TICKSINFACET - 1 + JITTERTICKS))
            => /\ synchronized' = 0 /\ move' = 0 /\ tickcounter' = 0
               /\ read_en' = 0 /\ facetcnt' = facetcnt /\ error' = error
               /\ pc' = "WAIT_END" /\ rejected' = 1]_vars
    /\ [][(pc = "WAIT_END" /\ synchronize = 1)
            => (pc' \in {"WAIT_END", "WAIT_STABLE"} /\ read_en' = 0
                   /\ error' = error)]_vars
    /\ [][(rejected = 1 /\ pc = "WAIT_STABLE" /\ photodiode = 0
              /\ photodiode_d = 0 /\ tickcounter = TICKSINFACET - 1)
            => synchronized' = 1]_vars

\* C27, amended: as above, but a rejected edge leaves the watchdog's counter
\* running, and the edge registered TICKSINFACET ticks after a rejected one
\* is accepted only if the watchdog is not due on that tick; if it is, the
\* engine sets error and goes to STOP
C27_LossOfSyncWatchdog ==
    /\ [][(pc = "WAIT_STABLE" /\ stablecntr < stablethresh
              /\ photodiode = 0 /\ photodiode_d = 0
              /\ (tickcounter <= TICKSINFACET - 1 - JITTERTICKS
                      \/ tickcounter >= TICKSINFACET - 1 + JITTERTICKS))
            => /\ synchronized' = 0 /\ move' = 0 /\ tickcounter' = 0
               /\ read_en' = 0 /\ facetcnt' = facetcnt /\ error' = error
               /\ pc' = "WAIT_END" /\ rejected' = 1
               /\ stablecntr' = stablecntr]_vars
    /\ [][(pc = "WAIT_END" /\ synchronize = 1)
            => (pc' \in {"WAIT_END", "WAIT_STABLE"} /\ read_en' = 0
                   /\ error' = error)]_vars
    /\ [][(rejected = 1 /\ pc = "WAIT_STABLE" /\ photodiode = 0
              /\ photodiode_d = 0 /\ tickcounter = TICKSINFACET - 1)
            => IF stablecntr < stablethresh
               THEN synchronized' = 1 /\ rejected' = 2 /\ error' = error
               ELSE error' = 1 /\ pc' = "STOP"
                    /\ synchronized' = synchronized]_vars

\* C27 witness: an edge was rejected and the next one, registered
\* TICKSINFACET ticks later, has been accepted
C27_Witness ==
    /\ rejected = 2 /\ synchronized = 1 /\ error = 0
    /\ pc \in {"WAIT_END", "READ_INSTRUCTION"} /\ tickcounter = 0


\* C28: the engine enters READ_INSTRUCTION with read_en raised only from
\* WAIT_STABLE, on an edge it accepts while process_lines is set and the
\* transport is not empty (and, in single facet mode, facetcnt is 0); an
\* accepted edge that lacks any of these disarms movement, raises no
\* read_en and leads to WAIT_END; process_lines is set by a rising edge of
\* expose_start alone and cleared when a LastScanline is decoded, and
\* without read_en the read pointer does not advance, so lines written
\* before expose_start, or left after a LastScanline, stay in the transport
C28_GatedReads ==
    /\ [][pc' = "READ_INSTRUCTION" /\ (pc # "READ_INSTRUCTION" \/ read_en' = 1)
            => /\ pc = "WAIT_STABLE" /\ stablecntr < stablethresh
               /\ photodiode = 0 /\ photodiode_d = 0
               /\ tickcounter > TICKSINFACET - 1 - JITTERTICKS
               /\ tickcounter < TICKSINFACET - 1 + JITTERTICKS
               /\ process_lines = 1 /\ ~empty
               /\ (single_facet => facetcnt = 0)
               /\ read_en' = 1]_vars
    /\ [][(/\ pc = "WAIT_STABLE" /\ stablecntr < stablethresh
           /\ photodiode = 0 /\ photodiode_d = 0
           /\ tickcounter > TICKSINFACET - 1 - JITTERTICKS
           /\ tickcounter < TICKSINFACET - 1 + JITTERTICKS
           /\ (process_lines = 0 \/ empty \/ (single_facet /\ facetcnt # 0)))
            => /\ move' = 0 /\ pc' = "WAIT_END" /\ read_en' = 0
               /\ synchronized' = 1]_vars
    /\ [][read_en = 0 => cur_read' \in {cur_read, com_read}]_vars
    /\ [][(process_lines = 0 /\ process_lines' = 1) => Rising]_vars
    /\ [][(pc = "READ_INSTRUCTION" /\ read_data = LASTSCANLINE)
            => process_lines' = 0]_vars

\* C28 witness: a LastScanline has been decoded, a further line is in the
\* transport, and an edge has just been accepted without a read
C28_Witness ==
    /\ pc = "WAIT_END" /\ tickcounter = 0 /\ synchronized = 1
    /\ expose_finished = 1 /\ process_lines = 0 /\ ~empty
    /\ read_en = 0 /\ move = 0 /\ fin > 0


\* C29: when READ_INSTRUCTION decodes a Scanline word (low byte SCANLINE),
\* dir becomes bit 8 of the word, stephalfperiod the number in bits 9 and
\* above, and move is set; on every other tick, in every state, dir and
\* stephalfperiod keep their values
C29_ScanlineLatch ==
    [][IF pc = "READ_INSTRUCTION" /\ read_data % 256 = SCANLINE
       THEN /\ dir' = (read_data \div 256) % 2
            /\ stephalfperiod' = read_data \div 512
            /\ move' = 1 /\ pc' = "WAIT_FOR_DATA_RUN"
       ELSE dir' = dir /\ stephalfperiod' = stephalfperiod]_vars

\* C29 witness: the second Scanline, of direction 0, has been decoded after
\* a first of direction 1, and the line is running with what was latched
C29_Witness ==
    /\ pc = "DATA_RUN" /\ scanbit > 0 /\ move = 1
    /\ dir = 0 /\ stephalfperiod = HALFPERIOD /\ HALFPERIOD > 0
    /\ Len(fetched) > 1 /\ linecommits > 0
    /\ prog = Program(<<ScanLine(1, 1), ScanLine(0, 2), LastLine>>)


\* C30: READ_INSTRUCTION decodes by the low byte of the word alone: a word
\* whose low byte is LASTSCANLINE sets expose_finished, disarms movement,
\* commits the read, clears process_lines and leads to WAIT_END with no
\* error, whatever its upper bits; a word whose low byte is SCANLINE leads
\* to WAIT_FOR_DATA_RUN; only a word with another low byte sets error
C30_LowByteOpcode ==
    [][pc = "READ_INSTRUCTION"
         => CASE read_data % 256 = LASTSCANLINE ->
                   /\ expose_finished' = 1 /\ move' = 0 /\ read_commit' = 1
                   /\ process_lines' = 0 /\ pc' = "WAIT_END"
                   /\ error' = error
              [] read_data % 256 = SCANLINE ->
                   pc' = "WAIT_FOR_DATA_RUN" /\ error' = error
              [] OTHER -> error' = 1 /\ pc' = "READ_INSTRUCTION"]_vars


\* C31: facetcnt is always in 0 .. FACETS - 1; an edge WAIT_STABLE accepts
\* advances it by one modulo FACETS whether or not a line is read on it, a
\* tick in STOP returns it to 0, and every other tick, a rejected edge
\* among them, leaves it alone
C31_FacetIndex ==
    /\ [](facetcnt \in 0 .. FACETS - 1)
    /\ [][IF pc = "STOP" THEN facetcnt' = 0
          ELSE IF /\ pc = "WAIT_STABLE" /\ stablecntr < stablethresh
                  /\ photodiode = 0 /\ photodiode_d = 0
                  /\ tickcounter > TICKSINFACET - 1 - JITTERTICKS
                  /\ tickcounter < TICKSINFACET - 1 + JITTERTICKS
          THEN facetcnt' = (facetcnt + 1) % FACETS
                  /\ pc' \in {"READ_INSTRUCTION", "WAIT_END"}
          ELSE facetcnt' = facetcnt]_vars

\* C31 witness: after an edge on which a line was read, an edge accepted
\* without a read has taken facetcnt round to 0
C31_Witness ==
    /\ pc = "WAIT_END" /\ tickcounter = 0 /\ synchronized = 1
    /\ facetcnt = 0 /\ ireads > 0 /\ read_en = 0 /\ FACETS > 1


\* C32: under scanlineringbuffer with the DiodeSimulator (synchronize held,
\* an edge every TICKSINFACET ticks, valid lines only) error is never set,
\* synchronized once set stays set, and every edge WAIT_STABLE registers
\* while synchronized is inside the acceptance window, while lines are
\* exposed and while the transport is empty
C32_Nominal ==
    /\ [](error = 0)
    /\ [][synchronized = 1 => synchronized' = 1]_vars
    /\ [][(/\ pc = "WAIT_STABLE" /\ synchronized = 1
           /\ photodiode = 0 /\ photodiode_d = 0)
            => /\ stablecntr < stablethresh
               /\ tickcounter = TICKSINFACET - 1
               /\ pc' \in {"READ_INSTRUCTION", "WAIT_END"}]_vars

\* C32 witness: the exposure is over, the transport is empty, and one more
\* edge has just been accepted
C32_Witness ==
    /\ pc = "WAIT_END" /\ tickcounter = 0 /\ synchronized = 1 /\ error = 0
    /\ empty /\ expose_finished = 1 /\ linecommits = MaxLines
    /\ stablecntr = 0 /\ move = 0


\* C33: whenever the engine is in STOP, or error is set, the step generator
\* is disarmed (move = 0), however STOP was reached and also while the
\* engine stays in READ_INSTRUCTION after a word that is no instruction
C33_NoMotionStopped == (pc = "STOP" \/ error = 1) => move = 0


\* C34: in every configuration params accepts a scanline fits the facet:
\* DATA_RUN leaves for WAIT_END with tickcounter below
\* TICKSINFACET - JITTERTICKS - 2, and under scanlineringbuffer no edge
\* after a line is missed or rejected, so synchronized stays set and error
\* stays clear
C34_LineFits ==
    /\ [][(pc = "DATA_RUN" /\ pc' = "WAIT_END")
            => tickcounter' < TICKSINFACET - JITTERTICKS - 2]_vars
    /\ [][synchronized = 1 => synchronized' = 1]_vars
    /\ [](error = 0)


\* C35: tickcounter never wraps between two edges: it falls only on a tick
\* on which WAIT_STABLE registers an edge; so an edge that comes, while
\* synchronized, when the watchdog's counter is already past the window
\* (more than a facet after the edge before it) is not accepted
C35_NoWrap ==
    /\ [][tickcounter' < tickcounter
            => /\ pc = "WAIT_STABLE" /\ photodiode = 0 /\ photodiode_d = 0
               /\ tickcounter' = 0]_vars
    /\ [][(/\ pc = "WAIT_STABLE" /\ synchronized = 1
           /\ photodiode = 0 /\ photodiode_d = 0
           /\ stablecntr < stablethresh
           /\ stablecntr >= TICKSINFACET - 1 + JITTERTICKS)
            => synchronized' = 0]_vars


\* C36: stablecntr returns to 0 only on an accepted edge and in STOP and
\* SPINUP; a rejected edge leaves it as it is, and every other tick in
\* WAIT_STABLE and every tick in WAIT_END adds one to it without a wrap;
\* WAIT_STABLE with stablecntr at or past stablethresh sets error and goes
\* to STOP.  So the counter grows on at least every second tick of a run of
\* rejected edges and the engine cannot go round WAIT_STABLE and WAIT_END
\* for more than stablethresh + TICKSINFACET ticks
C36_DesyncFatal ==
    /\ [][(pc = "WAIT_STABLE" /\ stablecntr >= stablethresh)
            => (error' = 1 /\ pc' = "STOP")]_vars
    /\ [][(pc = "WAIT_STABLE" /\ stablecntr < stablethresh)
            => IF photodiode = 0 /\ photodiode_d = 0
               THEN IF /\ tickcounter > TICKSINFACET - 1 - JITTERTICKS
                       /\ tickcounter < TICKSINFACET - 1 + JITTERTICKS
                    THEN stablecntr' = 0
                    ELSE stablecntr' = stablecntr /\ pc' = "WAIT_END"
               ELSE stablecntr' = stablecntr + 1]_vars
    /\ [][pc = "WAIT_END" => stablecntr' = stablecntr + 1]_vars
    /\ [][(stablecntr' < stablecntr)
            => (pc \in {"STOP", "SPINUP", "WAIT_STABLE"} /\ stablecntr' = 0)]_vars
    /\ [](pc \in {"WAIT_STABLE", "WAIT_END"}
            => stablecntr < stablethresh + TICKSINFACET)

\* C36 witness: the last edge was rejected and the watchdog is due
C36_Witness ==
    /\ pc = "WAIT_STABLE" /\ rejected = 1 /\ synchronized = 0
    /\ stablecntr >= stablethresh /\ tickcounter < TICKSINFACET
    /\ error = 0


\* C37: photodiode_t changes only on the last tick of a window of
\* 2 * TICKSINFACET ticks, where the latch is cleared, and is then high
\* exactly if the photodiode was low (triggered) on a tick of that window
C37_Window ==
    /\ [][photodiodecnt < TICKSINFACET * 2 - 1
            => photodiode_t' = photodiode_t]_vars
    /\ [][(probe = "window" /\ pc # "RESET"
           /\ photodiodecnt = TICKSINFACET * 2 - 1)
            => /\ triggered' = 0 /\ photodiodecnt' = 0
               /\ photodiode_t' = IF lowseen = 1 \/ photodiode = 0
                                  THEN 1 ELSE 0]_vars


\* C38: with the machine ON and data written, at the end of each period of
\* MAXPERIOD ticks the LED takes bit ledreadbit of the byte stored at the
\* read address, bit 0 first and bit LEDMEMWIDTH - 1 last, after which the
\* read address moves on by one; between two ends of a period, a READ
\* among them or not, the LED keeps its level and the period counter goes
\* up by one a tick.  Stated for the master of
\* test_ledstatechangepostwrite, which has written the memory full before
\* it starts the machine and writes nothing after
C38_BitStream ==
    /\ [][(/\ script = <<STATUS, WRITE_L, WRITE_L, WRITE_L, START, STATUS,
                         AWAIT, STATUS>>
           /\ ledfsm = "ON" /\ counter = MAXPERIOD - 1 /\ written # 0)
            => /\ led' = (ledmem[read_adr] \div Pow2(ledreadbit)) % 2
               /\ ledreadbit' = (ledreadbit + 1) % LEDMEMWIDTH
               /\ read_adr' = IF ledreadbit = LEDMEMWIDTH - 1
                              THEN (read_adr + 1) % LEDMEMDEPTH
                              ELSE read_adr]_vars
    /\ [][(ledfsm \in {"ON", "READ"} /\ counter # MAXPERIOD - 1)
            => (led' = led /\ counter' = counter + 1)]_vars
    /\ [](counter < MAXPERIOD)


\* C39: the byte the LED state machine shows is the byte stored at the
\* read address (as far as dat_r_temp holds it); the receiver takes a data
\* byte only while the memory is not full; and written falls only when
\* the read address has caught up with the write address and no write is
\* under way
C39_RingBuffer ==
    /\ [][(ledfsm = "ON" /\ counter = MAXPERIOD - 1 /\ written # 0)
            => dat_r_temp = (ledmem[read_adr] % LEDMEMWIDTH)
                                \div Pow2(ledreadbit)]_vars
    /\ [][(receiver = "PROCESSINPUT" /\ command = WRITE_L) => ~Full]_vars
    /\ [][(written = 1 /\ written' = 0)
            => (read_adr' = write_adr' /\ write_we' = 0)]_vars


\* C40: when send_move returns the device has taken every command of the
\* move once and in order; a command answered with memory full is sent
\* again (it stays the next to send); and the call fails only with "Too
\* many trials needed", after more than iterations trials
C40_SendMoveRetry ==
    /\ [](sendpc = "returned" => delivered = [i \in 1 .. 4 * motors |-> i])
    /\ [][(sendpc = "while" /\ trials' = trials + 1 /\ data_out' = 1)
            => commands' = commands]_vars
    /\ [](sendpc # "IndexError")
    /\ [](sendpc = "TooManyTrials" => trials > iterations)

=========================================================================
